---- MODULE Spec2Model ----
(***************************************************************************)
(* Model of the agent-assistant frontend: the chat-message parsers         *)
(* (segment/ReAct, flat ReAct, Planning/Step and tag variants) and the     *)
(* three chat pages that fill an assistant message from a stream.          *)
(*                                                                         *)
(* A JavaScript string is a sequence of one-character strings, indexed     *)
(* from 0 as in the source (s[i] of the source is s[i + 1] here).  A       *)
(* character outside ASCII is one element named by its code point.         *)
(***************************************************************************)
EXTENDS Integers, Sequences, FiniteSets, TLC

(***************************************************************************)
(* String primitives of the JavaScript runtime, as the parsers use them.   *)
(***************************************************************************)
IsSpace(c) == c \in {" ", "\n", "\t"}

Substring(s, a, b) == SubSeq(s, a + 1, b)

SubstringFrom(s, a) == SubSeq(s, a + 1, Len(s))

StartsWithAt(s, p, i) ==
  /\ i >= 0
  /\ i + Len(p) <= Len(s)
  /\ SubSeq(s, i + 1, i + Len(p)) = p

StartsWith(s, p) == StartsWithAt(s, p, 0)

RECURSIVE IndexOfFrom(_, _, _)
IndexOfFrom(s, p, i) ==
  IF i + Len(p) > Len(s) THEN -1
  ELSE IF StartsWithAt(s, p, i) THEN i
  ELSE IndexOfFrom(s, p, i + 1)

IndexOf(s, p) == IndexOfFrom(s, p, 0)

RECURSIVE LastIndexOfFrom(_, _, _)
LastIndexOfFrom(s, p, i) ==
  IF i < 0 THEN -1
  ELSE IF StartsWithAt(s, p, i) THEN i
  ELSE LastIndexOfFrom(s, p, i - 1)

LastIndexOf(s, p) == LastIndexOfFrom(s, p, Len(s) - Len(p))

Includes(s, p) == IndexOf(s, p) # -1

RECURSIVE CountFrom(_, _, _)
CountFrom(s, p, i) ==
  LET k == IndexOfFrom(s, p, i)
  IN  IF k = -1 THEN 0 ELSE 1 + CountFrom(s, p, k + Len(p))

\* (s.match(/p/g) || []).length for a literal pattern p
MatchCount(s, p) == CountFrom(s, p, 0)

RECURSIVE TrimStart(_)
TrimStart(s) ==
  IF s # <<>> /\ IsSpace(Head(s)) THEN TrimStart(Tail(s)) ELSE s

RECURSIVE TrimEnd(_)
TrimEnd(s) ==
  IF s # <<>> /\ IsSpace(s[Len(s)])
  THEN TrimEnd(SubSeq(s, 1, Len(s) - 1))
  ELSE s

Trim(s) == TrimEnd(TrimStart(s))

AllSpace(s) == \A i \in 1..Len(s) : IsSpace(s[i])

RECURSIVE SplitFrom(_, _)
SplitFrom(s, i) ==
  LET k == IndexOfFrom(s, <<"\n">>, i)
  IN  IF k = -1 THEN <<SubstringFrom(s, i)>>
      ELSE <<Substring(s, i, k)>> \o SplitFrom(s, k + 1)

\* s.split('\n')
SplitLines(s) == SplitFrom(s, 0)

RECURSIVE JoinLines(_)
\* lines.join('\n')
JoinLines(lines) ==
  IF lines = <<>> THEN <<>>
  ELSE IF Len(lines) = 1 THEN lines[1]
  ELSE lines[1] \o <<"\n">> \o JoinLines(Tail(lines))

(***************************************************************************)
(* The literals of the source.                                             *)
(***************************************************************************)
ThinkOpen == <<"<", "t", "h", "i", "n", "k", ">">>
ThinkClose == <<"<", "/", "t", "h", "i", "n", "k", ">">>
ToolOpen == <<"<", "t", "o", "o", "l", "_", "c", "a", "l", "l", ">">>
ToolClose == <<"<", "/", "t", "o", "o", "l", "_", "c", "a", "l", "l", ">">>
ResultWord == <<"R", "e", "s", "u", "l", "t">>
ThoughtMark == <<"T", "h", "o", "u", "g", "h", "t", ":">>
ActionMark == <<"A", "c", "t", "i", "o", "n", ":">>
ActionInputMark == <<"A", "c", "t", "i", "o", "n", " ", "I", "n", "p", "u", "t", ":">>
ObservationMark == <<"O", "b", "s", "e", "r", "v", "a", "t", "i", "o", "n", ":">>
ObservMark == <<"O", "b", "s", "e", "r", "v">>
FinalAnswerMark == <<"F", "i", "n", "a", "l", " ", "A", "n", "s", "w", "e", "r", ":">>
PlanningMark == <<"P", "l", "a", "n", "n", "i", "n", "g", ":">>
StepWord == <<"S", "t", "e", "p">>
ToolMark == <<"T", "o", "o", "l", ":">>
ToolInputMark == <<"T", "o", "o", "l", " ", "I", "n", "p", "u", "t", ":">>
ResultMark == <<"R", "e", "s", "u", "l", "t", ":">>
SummaryMark == <<"S", "u", "m", "m", "a", "r", "y", ":">>

(***************************************************************************)
(* Regular expressions of the source, each computed as the engine does.    *)
(***************************************************************************)
\* One match of /<think>([\s\S]*?)<\/think>/ at or after position i:
\* the leftmost opening tag that has a closing tag after it, up to the
\* first such closing tag.  index = -1 when there is none.
PairMatchFrom(s, open, close, i) ==
  LET o == IndexOfFrom(s, open, i)
      c == IF o = -1 THEN -1 ELSE IndexOfFrom(s, close, o + Len(open))
  IN  IF o = -1 \/ c = -1
      THEN [index |-> -1, inner |-> <<>>, end |-> -1]
      ELSE [index |-> o,
            inner |-> Substring(s, o + Len(open), c),
            end |-> c + Len(close)]

RECURSIVE PairMatchesFrom(_, _, _, _)
\* every match of the global regex, in order (the regex.exec loop)
PairMatchesFrom(s, open, close, i) ==
  LET m == PairMatchFrom(s, open, close, i)
  IN  IF m.index = -1 THEN <<>>
      ELSE <<m>> \o PairMatchesFrom(s, open, close, m.end)

PairMatches(s, open, close) == PairMatchesFrom(s, open, close, 0)

RECURSIVE RemovePairsFrom(_, _, _, _)
\* s.replace(/<open>[\s\S]*?<\/close>/g, '')
RemovePairsFrom(s, open, close, i) ==
  LET m == PairMatchFrom(s, open, close, i)
  IN  IF m.index = -1 THEN SubstringFrom(s, i)
      ELSE Substring(s, i, m.index) \o RemovePairsFrom(s, open, close, m.end)

RemovePairs(s, open, close) == RemovePairsFrom(s, open, close, 0)

RECURSIVE SpaceRunEnd(_, _)
\* the position after the maximal run of \s that starts at i
SpaceRunEnd(s, i) ==
  IF i < Len(s) /\ IsSpace(s[i + 1]) THEN SpaceRunEnd(s, i + 1) ELSE i

RECURSIVE TailResultFrom(_, _)
\* the index where /\nResult\s*$/ matches, or -1 ($ is the end of input)
TailResultFrom(s, i) ==
  LET k == IndexOfFrom(s, <<"\n">> \o ResultWord, i)
  IN  IF k = -1 THEN -1
      ELSE IF SpaceRunEnd(s, k + 7) = Len(s) THEN k
      ELSE TailResultFrom(s, k + 1)

\* s.replace(/\nResult\s*$/g, '')
StripTailResult(s) ==
  LET k == TailResultFrom(s, 0)
  IN  IF k = -1 THEN s ELSE Substring(s, 0, k)

RECURSIVE LastNewlineIn(_, _, _)
\* the largest j in [a, b) with s[j] a newline, or -1
LastNewlineIn(s, a, b) ==
  IF b <= a THEN -1
  ELSE IF s[b] = "\n" THEN b - 1
  ELSE LastNewlineIn(s, a, b - 1)

\* The end of the match of /^Result\s*$/m tried at line start i, or -1.
\* \s* is greedy and backtracks to the longest run after which $ holds
\* (end of input, or a newline next).
ResultLineEnd(s, i) ==
  IF ~StartsWithAt(s, ResultWord, i) THEN -1
  ELSE LET a == i + 6
           e == SpaceRunEnd(s, a)
           n == LastNewlineIn(s, a, e)
       IN  IF e = Len(s) THEN e
           ELSE IF n # -1 THEN n
           ELSE -1

RECURSIVE StripResultLinesFrom(_, _)
\* s.replace(/^Result\s*$/gm, ''), scanning from position i
StripResultLinesFrom(s, i) ==
  IF i >= Len(s) THEN <<>>
  ELSE LET atLineStart == (i = 0) \/ (s[i] = "\n")
           e == IF atLineStart THEN ResultLineEnd(s, i) ELSE -1
       IN  IF e # -1 THEN StripResultLinesFrom(s, e)
           ELSE <<s[i + 1]>> \o StripResultLinesFrom(s, i + 1)

StripResultLines(s) == StripResultLinesFrom(s, 0)

(***************************************************************************)
(* cleanContent: the same function in all three line-marker variants.      *)
(***************************************************************************)
cleanContent(text) ==
  LET cleaned1 == RemovePairs(text, ThinkOpen, ThinkClose)
      thinkIdx == IndexOf(cleaned1, ThinkOpen)
      cleaned2 == IF thinkIdx # -1 THEN Substring(cleaned1, 0, thinkIdx)
                  ELSE cleaned1
  IN  Trim(StripResultLines(StripTailResult(cleaned2)))

(***************************************************************************)
(* Flat ReAct variant: pages/agent/ChatMessage.vue, second script block.   *)
(***************************************************************************)
RECURSIVE AnyLineStartsFrom(_, _, _)
\* /^(m1|m2|...)/m.test(s): some line of s starts with one of the marks
AnyLineStartsFrom(s, marks, i) ==
  IF i > Len(s) THEN FALSE
  ELSE IF ((i = 0) \/ (s[i] = "\n")) /\ (\E m \in marks : StartsWithAt(s, m, i))
  THEN TRUE
  ELSE AnyLineStartsFrom(s, marks, i + 1)

AnyLineStarts(s, marks) == AnyLineStartsFrom(s, marks, 0)

RECURSIVE RestLines(_, _)
\* the loop "for j = i + 1 ..: acc += '\n' + lines[j]", from 1-based line j
RestLines(lines, j) ==
  IF j > Len(lines) THEN <<>>
  ELSE <<"\n">> \o lines[j] \o RestLines(lines, j + 1)

IsObservLine(line) ==
  StartsWith(line, ObservationMark) \/ StartsWith(line, ObservMark)

ObservText(line) ==
  IF StartsWith(line, ObservationMark)
  THEN Trim(SubstringFrom(line, 12))
  ELSE Trim(SubstringFrom(line, 6))

FlatSaveCurrentStep(st) ==
  LET text == Trim(JoinLines(st.currentContent))
  IN  [st EXCEPT
         !.steps = IF st.currentType # "null" /\ Len(st.currentContent) > 0
                      /\ text # <<>>
                   THEN Append(@, [type |-> st.currentType, content |-> text])
                   ELSE @,
         !.currentContent = <<>>]

RECURSIVE FlatLoop(_, _, _)
FlatLoop(st, lines, i) ==
  IF i > Len(lines) THEN st
  ELSE
    LET line == lines[i]
        saved == FlatSaveCurrentStep(st)
    IN  IF StartsWith(line, ThoughtMark) THEN
          FlatLoop([saved EXCEPT !.currentType = "thought",
                      !.currentContent = <<Trim(SubstringFrom(line, 8))>>],
                   lines, i + 1)
        ELSE IF StartsWith(line, ActionMark) THEN
          FlatLoop([saved EXCEPT !.currentType = "action",
                      !.currentContent = <<Trim(SubstringFrom(line, 7))>>],
                   lines, i + 1)
        ELSE IF StartsWith(line, ActionInputMark) THEN
          FlatLoop([saved EXCEPT !.currentType = "action_input",
                      !.currentContent = <<Trim(SubstringFrom(line, 13))>>],
                   lines, i + 1)
        ELSE IF IsObservLine(line) THEN
          FlatLoop([saved EXCEPT !.currentType = "observation",
                      !.currentContent = <<ObservText(line)>>],
                   lines, i + 1)
        ELSE IF StartsWith(line, FinalAnswerMark) THEN
          [saved EXCEPT !.currentType = "null",
             !.finalAnswer = Trim(Trim(SubstringFrom(line, 13))
                                  \o RestLines(lines, i + 1))]
        ELSE IF st.currentType # "null" THEN
          FlatLoop([st EXCEPT !.currentContent = Append(@, line)], lines, i + 1)
        ELSE FlatLoop(st, lines, i + 1)

ReactMarks ==
  {ThoughtMark, ActionMark, ActionInputMark, ObservationMark, FinalAnswerMark}

parsedContentFlat(content) ==
  LET cleanedContent == cleanContent(content)
      isReactFormat == AnyLineStarts(cleanedContent, ReactMarks)
      st0 == [steps |-> <<>>, currentType |-> "null",
              currentContent |-> <<>>, finalAnswer |-> <<>>]
      st == FlatSaveCurrentStep(FlatLoop(st0, SplitLines(cleanedContent), 1))
  IN  IF ~isReactFormat
      THEN [steps |-> <<>>, response |-> cleanedContent,
            isStreaming |-> FALSE, hasSummary |-> TRUE]
      ELSE [steps |-> st.steps, response |-> st.finalAnswer,
            isStreaming |-> (isReactFormat /\ st.finalAnswer = <<>>
                             /\ Len(st.steps) > 0),
            hasSummary |-> (st.finalAnswer # <<>>)]

(***************************************************************************)
(* Segment/ReAct variant: pages/agent/ChatMessage.vue, first script block. *)
(***************************************************************************)
RECURSIVE SegmentsFrom(_, _)
\* the thinkRegex.exec loop and the trailing text segment
SegmentsFrom(content, lastIndex) ==
  LET m == PairMatchFrom(content, ThinkOpen, ThinkClose, lastIndex)
  IN  IF m.index = -1
      THEN IF lastIndex < Len(content)
           THEN <<[type |-> "text", content |-> SubstringFrom(content, lastIndex)]>>
           ELSE <<>>
      ELSE (IF m.index > lastIndex
            THEN <<[type |-> "text",
                    content |-> Substring(content, lastIndex, m.index)]>>
            ELSE <<>>)
           \o <<[type |-> "think", content |-> Trim(m.inner)]>>
           \o SegmentsFrom(content, m.end)

RECURSIVE FindLastTextIndex(_, _)
\* segments.findLastIndex(s => s.type === 'text'), 1-based, 0 when none
FindLastTextIndex(segments, i) ==
  IF i = 0 THEN 0
  ELSE IF segments[i].type = "text" THEN i
  ELSE FindLastTextIndex(segments, i - 1)

\* str.replace(/<think>[\s\S]*$/, '')
CutFromThinkOpen(str) ==
  LET k == IndexOf(str, ThinkOpen)
  IN  IF k = -1 THEN str ELSE Substring(str, 0, k)

buildSegments(content) ==
  LET segments == SegmentsFrom(content, 0)
      lastOpenIdx == LastIndexOf(content, ThinkOpen)
      lastCloseIdx == LastIndexOf(content, ThinkClose)
      unclosedContent == Trim(SubstringFrom(content, lastOpenIdx + 7))
      lastTextIdx == FindLastTextIndex(segments, Len(segments))
      updated == IF lastTextIdx >= 1
                 THEN [segments EXCEPT
                         ![lastTextIdx].content = CutFromThinkOpen(@)]
                 ELSE segments
  IN  IF lastOpenIdx > lastCloseIdx /\ unclosedContent # <<>>
      THEN Append(updated, [type |-> "think", content |-> unclosedContent])
      ELSE segments

NoToolCall == [type |-> "null"]

SegSaveCurrentStep(st) ==
  LET t == Trim(JoinLines(st.currentContent))
  IN  [st EXCEPT
         !.steps = IF st.currentType = "thought" /\ Len(st.currentContent) > 0
                      /\ t # <<>>
                   THEN Append(@, [type |-> "thought", content |-> t])
                   ELSE @,
         !.currentContent = <<>>]

SegSaveToolCall(st) ==
  IF st.currentToolCall # NoToolCall
  THEN [st EXCEPT !.steps = Append(@, st.currentToolCall),
                  !.currentToolCall = NoToolCall]
  ELSE st

SegSaveBoth(st) == SegSaveToolCall(SegSaveCurrentStep(st))

RECURSIVE SegLineLoop(_, _, _)
SegLineLoop(st, lines, i) ==
  IF i > Len(lines) THEN st
  ELSE
    LET line == lines[i]
        saved == SegSaveBoth(st)
        tc == st.currentToolCall
    IN  IF StartsWith(line, ThoughtMark) THEN
          SegLineLoop([saved EXCEPT !.currentType = "thought",
                         !.currentContent = <<Trim(SubstringFrom(line, 8))>>],
                      lines, i + 1)
        ELSE IF StartsWith(line, ActionMark) THEN
          SegLineLoop([saved EXCEPT !.currentType = "action",
                         !.currentToolCall =
                            [type |-> "tool_call",
                             actionName |-> Trim(SubstringFrom(line, 7)),
                             actionInput |-> <<>>,
                             observation |-> <<>>]],
                      lines, i + 1)
        ELSE IF StartsWith(line, ActionInputMark) THEN
          SegLineLoop(IF tc # NoToolCall
                      THEN [st EXCEPT !.currentToolCall.actionInput =
                                         Trim(SubstringFrom(line, 13))]
                      ELSE st,
                      lines, i + 1)
        ELSE IF IsObservLine(line) THEN
          SegLineLoop([(IF tc # NoToolCall
                        THEN [st EXCEPT !.currentToolCall.observation =
                                           ObservText(line)]
                        ELSE st)
                       EXCEPT !.currentType = "observation"],
                      lines, i + 1)
        ELSE IF StartsWith(line, FinalAnswerMark) THEN
          [saved EXCEPT !.currentType = "null",
             !.finalAnswer = Trim(Trim(SubstringFrom(line, 13))
                                  \o RestLines(lines, i + 1))]
        ELSE IF st.currentType = "thought" THEN
          SegLineLoop([st EXCEPT !.currentContent = Append(@, line)],
                      lines, i + 1)
        ELSE IF st.currentType = "observation" /\ tc # NoToolCall THEN
          SegLineLoop([st EXCEPT !.currentToolCall.observation =
                                    @ \o <<"\n">> \o line],
                      lines, i + 1)
        ELSE IF tc # NoToolCall /\ tc.observation = <<>> THEN
          SegLineLoop([st EXCEPT !.currentToolCall.actionInput =
                                    @ \o <<"\n">> \o line],
                      lines, i + 1)
        ELSE SegLineLoop(st, lines, i + 1)

RECURSIVE SegmentLoop(_, _, _)
\* "for (const segment of segments)": acc carries steps and finalAnswer
SegmentLoop(acc, segments, k) ==
  IF k > Len(segments) THEN acc
  ELSE
    LET segment == segments[k]
        text == Trim(segment.content)
        st0 == [steps |-> acc.steps, finalAnswer |-> acc.finalAnswer,
                currentType |-> "null", currentContent |-> <<>>,
                currentToolCall |-> NoToolCall]
        st == SegSaveBoth(SegLineLoop(st0, SplitLines(text), 1))
    IN  IF segment.type = "think" /\ segment.content # <<>> THEN
          SegmentLoop([acc EXCEPT !.steps =
                         Append(@, [type |-> "thinking",
                                    content |-> segment.content])],
                      segments, k + 1)
        ELSE IF segment.type = "text" /\ text # <<>> THEN
          SegmentLoop([steps |-> st.steps, finalAnswer |-> st.finalAnswer],
                      segments, k + 1)
        ELSE SegmentLoop(acc, segments, k + 1)

parsedContentSegment(content) ==
  LET r == SegmentLoop([steps |-> <<>>, finalAnswer |-> <<>>],
                       buildSegments(content), 1)
      hasReactContent ==
        \E i \in 1..Len(r.steps) : r.steps[i].type \in {"thought", "tool_call"}
  IN  [steps |-> r.steps, response |-> r.finalAnswer,
       isStreaming |-> (hasReactContent /\ r.finalAnswer = <<>>),
       hasSummary |-> (r.finalAnswer # <<>>)]

(***************************************************************************)
(* Planning/Step (CoT) variant: unnamed/part_001.                          *)
(***************************************************************************)
IsDigit(c) == c \in {"0", "1", "2", "3", "4", "5", "6", "7", "8", "9"}

RECURSIVE DigitRunEnd(_, _)
DigitRunEnd(s, i) ==
  IF i < Len(s) /\ IsDigit(s[i + 1]) THEN DigitRunEnd(s, i + 1) ELSE i

\* the same with /Step\s*\d:/, one digit only
StepPrefixEndOneDigit(s, i) ==
  IF ~StartsWithAt(s, StepWord, i) THEN -1
  ELSE LET a == SpaceRunEnd(s, i + 4)
       IN  IF a + 1 < Len(s) /\ IsDigit(s[a + 1]) /\ s[a + 2] = ":"
           THEN a + 2 ELSE -1

\* the end of the match of /Step\s*\d+:/ tried at position i, or -1
StepPrefixEnd(s, i) ==
  IF ~StartsWithAt(s, StepWord, i) THEN -1
  ELSE LET a == SpaceRunEnd(s, i + 4)
           d == DigitRunEnd(s, a)
       IN  IF d > a /\ d < Len(s) /\ s[d + 1] = ":" THEN d + 1 ELSE -1

RECURSIVE ThinkBlocks(_)
\* the think blocks pushed by the regex.exec loop: trimmed, non-blank bodies
ThinkBlocks(matches) ==
  IF matches = <<>> THEN <<>>
  ELSE (IF Trim(Head(matches).inner) # <<>>
        THEN <<Trim(Head(matches).inner)>> ELSE <<>>)
       \o ThinkBlocks(Tail(matches))

RECURSIVE JoinBlocks(_)
\* thinkBlocks.join('\n\n')
JoinBlocks(blocks) ==
  IF blocks = <<>> THEN <<>>
  ELSE IF Len(blocks) = 1 THEN blocks[1]
  ELSE blocks[1] \o <<"\n", "\n">> \o JoinBlocks(Tail(blocks))

\* thinkingContent: the closed blocks, then the unclosed one marked ' ...'
thinkingContent(content) ==
  LET lastOpenIdx == LastIndexOf(content, ThinkOpen)
      lastCloseIdx == LastIndexOf(content, ThinkClose)
      unclosed == Trim(SubstringFrom(content, lastOpenIdx + 7))
  IN  JoinBlocks(ThinkBlocks(PairMatches(content, ThinkOpen, ThinkClose))
                 \o (IF lastOpenIdx > lastCloseIdx /\ unclosed # <<>>
                     THEN <<unclosed \o <<" ", ".", ".", ".">>>>
                     ELSE <<>>))

RECURSIVE IsCotFormatFrom(_, _)
\* /^(Planning:|Step\s*\d+:)/m.test(s)
IsCotFormatFrom(s, i) ==
  IF i > Len(s) THEN FALSE
  ELSE IF ((i = 0) \/ (s[i] = "\n"))
          /\ (StartsWithAt(s, PlanningMark, i) \/ StepPrefixEnd(s, i) # -1)
  THEN TRUE
  ELSE IsCotFormatFrom(s, i + 1)

IsCotFormat(s) == IsCotFormatFrom(s, 0)

RECURSIVE HashRunEnd(_, _)
HashRunEnd(s, i) ==
  IF i < Len(s) /\ s[i + 1] = "#" THEN HashRunEnd(s, i + 1) ELSE i

\* line.match(/^#+\s/)
IsHeadingLine(line) ==
  LET h == HashRunEnd(line, 0)
  IN  h > 0 /\ h < Len(line) /\ IsSpace(line[h + 1])

\* line.match(/^\|.*\|$/)
IsTableLine(line) ==
  Len(line) >= 2 /\ line[1] = "|" /\ line[Len(line)] = "|"

\* "if (currentType && currentContent.length > 0) { ... steps.push }"
CotFlush(st) ==
  LET cleaned == cleanContent(JoinLines(st.currentContent))
  IN  IF st.currentType # "null" /\ Len(st.currentContent) > 0
         /\ cleaned # <<>>
      THEN [st EXCEPT !.steps =
              Append(@, [type |-> st.currentType, content |-> cleaned])]
      ELSE st

RECURSIVE CotLoop(_, _, _)
CotLoop(st, lines, i) ==
  IF i > Len(lines) THEN st
  ELSE
    LET line == lines[i]
        flushed == CotFlush(st)
    IN  IF Includes(line, ThinkOpen) THEN
          CotLoop([st EXCEPT !.inThinkBlock = TRUE], lines, i + 1)
        ELSE IF Includes(line, ThinkClose) THEN
          CotLoop([st EXCEPT !.inThinkBlock = FALSE], lines, i + 1)
        ELSE IF st.inThinkBlock THEN
          CotLoop(st, lines, i + 1)
        ELSE IF StartsWith(line, PlanningMark) THEN
          CotLoop([flushed EXCEPT !.currentType = "planning",
                     !.currentContent = <<Trim(SubstringFrom(line, 9))>>,
                     !.remainingContent = <<>>],
                  lines, i + 1)
        ELSE IF StepPrefixEnd(line, 0) # -1 THEN
          CotLoop([flushed EXCEPT !.currentType = "step",
                     !.currentContent =
                        <<Trim(SubstringFrom(line, StepPrefixEnd(line, 0)))>>,
                     !.remainingContent = <<>>],
                  lines, i + 1)
        ELSE IF StartsWith(line, ToolMark) THEN
          CotLoop([flushed EXCEPT !.currentType = "tool",
                     !.currentContent = <<Trim(SubstringFrom(line, 5))>>],
                  lines, i + 1)
        ELSE IF StartsWith(line, ToolInputMark) THEN
          CotLoop(IF st.currentType = "tool"
                  THEN [st EXCEPT !.currentContent =
                          Append(@, Trim(SubstringFrom(line, 11)))]
                  ELSE st,
                  lines, i + 1)
        ELSE IF StartsWith(line, ResultMark) THEN
          CotLoop([flushed EXCEPT !.currentType = "result",
                     !.currentContent = <<Trim(SubstringFrom(line, 7))>>],
                  lines, i + 1)
        ELSE IF StartsWith(line, SummaryMark) THEN
          [flushed EXCEPT !.currentType = "null",
             !.currentContent = <<>>,
             !.summary = cleanContent(Trim(SubstringFrom(line, 8))
                                      \o RestLines(lines, i + 1))]
        ELSE IF st.currentType # "null" THEN
          IF IsHeadingLine(line) \/ IsTableLine(line) THEN
            CotLoop([(IF Len(st.currentContent) > 0
                         /\ cleanContent(JoinLines(st.currentContent)) # <<>>
                      THEN [st EXCEPT !.steps =
                              Append(@, [type |-> st.currentType,
                                         content |-> cleanContent(
                                            JoinLines(st.currentContent))])]
                      ELSE st)
                     EXCEPT !.currentType = "null",
                            !.currentContent = <<>>,
                            !.remainingContent = Append(@, line)],
                    lines, i + 1)
          ELSE IF Trim(line) # ResultWord THEN
            CotLoop([st EXCEPT !.currentContent = Append(@, line)],
                    lines, i + 1)
          ELSE CotLoop(st, lines, i + 1)
        ELSE
          CotLoop([st EXCEPT !.remainingContent = Append(@, line)],
                  lines, i + 1)

parsedContentCot(content) ==
  LET cleanedContent == cleanContent(content)
      isCotFormat == IsCotFormat(cleanedContent)
      st0 == [steps |-> <<>>, currentType |-> "null", currentContent |-> <<>>,
              summary |-> <<>>, remainingContent |-> <<>>,
              inThinkBlock |-> FALSE]
      st == CotFlush(CotLoop(st0, SplitLines(content), 1))
      summary == IF st.summary = <<>> /\ Len(st.remainingContent) > 0
                 THEN cleanContent(JoinLines(st.remainingContent))
                 ELSE st.summary
  IN  IF ~isCotFormat
      THEN [steps |-> <<>>, response |-> cleanedContent,
            isStreaming |-> FALSE, hasSummary |-> TRUE]
      ELSE [steps |-> st.steps, response |-> summary,
            isStreaming |-> ((Includes(content, PlanningMark)
                               \/ Includes(content, StepWord))
                             /\ ~Includes(content, SummaryMark)
                             /\ summary = <<>>),
            hasSummary |-> (summary # <<>>)]

(***************************************************************************)
(* Tag variant: unnamed/part_002.                                          *)
(***************************************************************************)
RECURSIVE TagSteps(_, _)
\* the steps pushed by one regex.exec loop: matches with a non-blank body
TagSteps(matches, type) ==
  IF matches = <<>> THEN <<>>
  ELSE (IF Trim(Head(matches).inner) # <<>>
        THEN <<[type |-> type, content |-> Trim(Head(matches).inner),
                index |-> Head(matches).index]>>
        ELSE <<>>)
       \o TagSteps(Tail(matches), type)

\* the steps as the two exec loops pushed them
PushOrder(steps) == steps

RECURSIVE SortByIndex(_)
\* steps.sort((a, b) => a.index - b.index): stable, ascending by index
SortByIndex(steps) ==
  IF steps = <<>> THEN <<>>
  ELSE LET k == CHOOSE i \in 1..Len(steps) :
                  \A j \in 1..Len(steps) :
                    \/ steps[i].index < steps[j].index
                    \/ (steps[i].index = steps[j].index /\ i <= j)
       IN  <<steps[k]>>
           \o SortByIndex(SubSeq(steps, 1, k - 1)
                          \o SubSeq(steps, k + 1, Len(steps)))

\* if (open > close) { idx = r.lastIndexOf(tag); if (idx !== -1) r = r.substring(0, idx) }
CutAtLast(r, tag, isOpen) ==
  LET idx == LastIndexOf(r, tag)
  IN  IF isOpen /\ idx # -1 THEN Substring(r, 0, idx) ELSE r

parsedContentTag(content) ==
  LET steps == TagSteps(PairMatches(content, ThinkOpen, ThinkClose), "thought")
               \o TagSteps(PairMatches(content, ToolOpen, ToolClose), "action")
      responseContent == RemovePairs(RemovePairs(content, ThinkOpen, ThinkClose),
                                     ToolOpen, ToolClose)
      thinkOpen == MatchCount(content, ThinkOpen)
      thinkClose == MatchCount(content, ThinkClose)
      toolOpen == MatchCount(content, ToolOpen)
      toolClose == MatchCount(content, ToolClose)
      r1 == CutAtLast(responseContent, ThinkOpen, thinkOpen > thinkClose)
      r2 == CutAtLast(r1, ToolOpen, toolOpen > toolClose)
  IN  [steps |-> SortByIndex(steps), response |-> Trim(r2),
       isStreaming |-> (thinkOpen > thinkClose \/ toolOpen > toolClose)]

NoStep == [type |-> "null"]

streamingStep(content) ==
  IF MatchCount(content, ThinkOpen) > MatchCount(content, ThinkClose)
  THEN [type |-> "thought",
        content |-> Trim(SubstringFrom(content,
                                       LastIndexOf(content, ThinkOpen) + 7))]
  ELSE IF MatchCount(content, ToolOpen) > MatchCount(content, ToolClose)
  THEN [type |-> "action",
        content |-> Trim(SubstringFrom(content,
                                       LastIndexOf(content, ToolOpen) + 11))]
  ELSE NoStep

(***************************************************************************)
(* State.                                                                  *)
(*   buffer    props.message.content of the message a ChatMessage view     *)
(*             shows while it streams; grammar names the markers the       *)
(*             stream is made of; nTokens counts the tokens appended.      *)
(*   messages, isLoading, streamingMessageId                               *)
(*             the refs of pages/agent/Index.vue and of the chat page in   *)
(*             layouts/AppLayout.vue (0 stands for a null id)              *)
(*   now       Date.now()                                                  *)
(*   calls     the chat calls made so far, in order: what each closure     *)
(*             holds (aiMessageId / currentMsg) and how far the backend    *)
(*             or the stream has got                                       *)
(*   isTyping, isReceiving, renderTimer                                    *)
(*             the refs and the timer of pages/agent/ChatInput.vue         *)
(*             (renderTimer is 0 or the message the timer closes over)     *)
(*   timeouts  the setTimeout callbacks not run yet, oldest first, each    *)
(*             the message its closure holds                               *)
(*   abortController, mounted                                              *)
(*             the controller of layouts/AppLayout.vue (0 or the call it   *)
(*             belongs to) and whether the page is mounted                 *)
(*   parses    the evaluations of the parsedContent computed of one        *)
(*             ChatMessage view, oldest first: the content it was given    *)
(*             and the value it returned                                   *)
(*   conversations, currentConversationId                                  *)
(*             the conversation list of pages/agent/Index.vue, newest      *)
(*             first, and the selected id (0 stands for null)              *)
(*   targetId  the conversation the popup menu of ConversationList.vue     *)
(*             was opened on (0 stands for null)                           *)
(*   db        the module variable of unnamed/part_004: 0 for null, else   *)
(*             the Database instance it holds                              *)
(*   dbCalls   the initDb calls made so far, in order: where each one is   *)
(*             and the instance it returned (0 for none)                   *)
(*   agents, agentObjs                                                     *)
(*             the agent list of pages/AgentPage.vue, as the objects it    *)
(*             holds in order, and the fields of every agent object made   *)
(*             so far (an object taken off the list lives on in the        *)
(*             closures that hold it)                                      *)
(*   selectedAgent, menuVisible                                            *)
(*             the object the popup menu was opened on (0 for null) and    *)
(*             whether the popup is shown                                  *)
(*   intervals the agent objects whose download interval is running        *)
(***************************************************************************)
VARIABLES buffer, grammar, nTokens,
          messages, isLoading, streamingMessageId, now, calls,
          isTyping, isReceiving, renderTimer, timeouts,
          abortController, mounted,
          parses, conversations, currentConversationId, targetId,
          db, dbCalls,
          agents, agentObjs, selectedAgent, menuVisible, intervals

parserVars == <<buffer, grammar, nTokens>>
pageVars == <<messages, isLoading, streamingMessageId, now, calls>>
channelVars == <<isTyping, isReceiving, renderTimer, timeouts>>
layoutVars == <<abortController, mounted>>
viewVars == <<parses>>
convVars == <<conversations, currentConversationId, targetId>>
dbVars == <<db, dbCalls>>
agentVars == <<agents, agentObjs, selectedAgent, menuVisible, intervals>>
appVars == <<viewVars, convVars, dbVars, agentVars>>
otherThanView == <<convVars, dbVars, agentVars>>
otherThanConv == <<viewVars, dbVars, agentVars>>
otherThanDb == <<viewVars, convVars, agentVars>>
otherThanAgent == <<viewVars, convVars, dbVars>>

vars == <<buffer, grammar, nTokens,
          messages, isLoading, streamingMessageId, now, calls,
          isTyping, isReceiving, renderTimer, timeouts,
          abortController, mounted,
          parses, conversations, currentConversationId, targetId,
          db, dbCalls,
          agents, agentObjs, selectedAgent, menuVisible, intervals>>

MaxReactTokens == 4
MaxCotTokens == 4
MaxTagTokens == 5
MaxStepTokens == 5

\* A model emits a marker at the start of a line: a marker token carries
\* the newline that precedes it.
AtLine(m) == <<"\n">> \o m

ReactTokens ==
  {AtLine(ThoughtMark), AtLine(ActionMark), AtLine(ActionInputMark),
   AtLine(ObservationMark), AtLine(FinalAnswerMark), AtLine(ResultWord),
   ThinkOpen, ThinkClose, <<"\n">>, <<" ">>, <<"a">>}

CotTokens ==
  {AtLine(PlanningMark), AtLine(StepWord \o <<" ", "1", ":">>),
   AtLine(ToolMark), AtLine(ToolInputMark), AtLine(ResultMark),
   AtLine(SummaryMark), AtLine(ResultWord), AtLine(<<"#", " ">>),
   AtLine(<<"|", "a", "|">>), ThinkOpen, ThinkClose, <<"\n">>, <<"a">>}

TagTokens == {ThinkOpen, ThinkClose, ToolOpen, ToolClose, <<" ">>, <<"a">>}

\* a stream that mixes think blocks, tool_call spans and Action lines
StepTokens ==
  {ThinkOpen, ThinkClose, ToolOpen, ToolClose, AtLine(ActionMark), <<"a">>}

TokensOf(g) ==
  CASE g = "react" -> ReactTokens
    [] g = "cot" -> CotTokens
    [] g = "tag" -> TagTokens
    [] g = "steps" -> StepTokens

MaxTokensOf(g) ==
  CASE g = "react" -> MaxReactTokens
    [] g = "cot" -> MaxCotTokens
    [] g = "tag" -> MaxTagTokens
    [] g = "steps" -> MaxStepTokens

ParserIdle == buffer = <<>> /\ grammar = "none" /\ nTokens = 0

PageIdle ==
  /\ messages = <<>>
  /\ isLoading = FALSE
  /\ streamingMessageId = 0
  /\ now = 1
  /\ calls = <<>>

ChannelIdle ==
  isTyping = FALSE /\ isReceiving = FALSE /\ renderTimer = 0 /\ timeouts = <<>>

LayoutIdle == abortController = 0 /\ mounted = TRUE

AppIdle ==
  /\ parses = <<>>
  /\ conversations = <<>> /\ currentConversationId = 0 /\ targetId = 0
  /\ db = 0 /\ dbCalls = <<>>
  /\ agents = <<1, 2, 3>>
  /\ agentObjs = <<[id |-> 1, status |-> "ready", isDefault |-> TRUE,
                    progress |-> 0],
                   [id |-> 2, status |-> "active", isDefault |-> FALSE,
                    progress |-> 0],
                   [id |-> 3, status |-> "ready", isDefault |-> FALSE,
                    progress |-> 0]>>
  /\ selectedAgent = 0 /\ menuVisible = FALSE /\ intervals = {}

\* the chat-token listener: msg.content += event.payload
AppendToken(t) ==
  /\ nTokens < MaxTokensOf(grammar)
  /\ buffer' = buffer \o t
  /\ nTokens' = nTokens + 1
  /\ UNCHANGED <<grammar, pageVars, channelVars, layoutVars, appVars>>

NextParse == \E t \in TokensOf(grammar) : AppendToken(t)

InitParse(g) ==
  /\ buffer = <<>> /\ grammar = g /\ nTokens = 0
  /\ PageIdle /\ ChannelIdle /\ LayoutIdle /\ AppIdle

SpecReact == InitParse("react") /\ [][NextParse]_vars
SpecCot == InitParse("cot") /\ [][NextParse]_vars
SpecTag == InitParse("tag") /\ [][NextParse]_vars
SpecSteps == InitParse("steps") /\ [][NextParse]_vars

\* A well-formed Planning / Step n / Summary message: Planning: and Step n:
\* lines, one content each, closed by one Summary: line.
MaxPlanLines == 3

PlanMarks ==
  {PlanningMark, StepWord \o <<" ", "1", ":">>, StepWord \o <<"1", "2", ":">>}

PlanContents == {<<" ", "a">>, <<"b", " ">>, <<" ">> \o ResultWord}

\* the stream adds a whole marker line to the message
AppendPlanLine(mark, text) ==
  /\ grammar = "plan"
  /\ nTokens < MaxPlanLines
  /\ buffer' = (IF buffer = <<>> THEN <<>> ELSE buffer \o <<"\n">>)
                 \o mark \o text
  /\ nTokens' = nTokens + 1
  /\ UNCHANGED <<grammar, pageVars, channelVars, layoutVars, appVars>>

\* the stream closes the message with its Summary: line
AppendSummaryLine(text) ==
  /\ grammar = "plan"
  /\ nTokens >= 1
  /\ buffer' = buffer \o <<"\n">> \o SummaryMark \o text
  /\ grammar' = "planned"
  /\ UNCHANGED <<nTokens, pageVars, channelVars, layoutVars, appVars>>

NextPlan ==
  \/ \E mark \in PlanMarks : \E text \in PlanContents : AppendPlanLine(mark, text)
  \/ \E text \in PlanContents : AppendSummaryLine(text)

SpecPlan == InitParse("plan") /\ [][NextPlan]_vars

(***************************************************************************)
(* One ChatMessage view of the tag variant whose message prop changes: the *)
(* parsedContent computed is evaluated again for each content it is given. *)
(***************************************************************************)
MaxParses == 3

ViewContents ==
  {<<>>, <<"a">>, ThinkOpen \o <<"a">>, ThinkOpen \o <<"a">> \o ThinkClose,
   ToolOpen \o <<"a">> \o ToolClose,
   ToolOpen \o <<"a">> \o ToolClose \o ThinkOpen \o <<" ", "a">> \o ThinkClose,
   ThinkOpen \o <<"a">> \o ThinkClose \o ToolOpen \o <<"a">>}

\* an array that outlives the evaluation: what the one before left in it
SameSteps(prior) == prior

\* const steps = []: a new array in every evaluation
NewSteps(prior) == <<>>

\* const thinkRegex = /.../g, const toolCallRegex = /.../g: a regex literal
\* is a new object in every evaluation, its lastIndex 0
NewRegExp(priorLastIndex) == 0

\* one evaluation of parsedContent; prior is the value the evaluation
\* before returned (<<>> and 0 before the first one)
EvalParsedContent(content, priorSteps, priorLastIndex) ==
  LET thinkRegex == NewRegExp(priorLastIndex)
      toolCallRegex == NewRegExp(priorLastIndex)
      steps ==
        NewSteps(priorSteps)
        \o TagSteps(PairMatchesFrom(content, ThinkOpen, ThinkClose, thinkRegex),
                    "thought")
        \o TagSteps(PairMatchesFrom(content, ToolOpen, ToolClose,
                                    toolCallRegex), "action")
  IN  [parsedContentTag(content) EXCEPT !.steps = SortByIndex(steps)]

\* props.message.content becomes content and the computed is evaluated;
\* an exec loop that ran to null leaves lastIndex 0
Reparse(content) ==
  /\ Len(parses) < MaxParses
  /\ buffer' = content
  /\ parses' =
       Append(parses,
              [content |-> content,
               value |-> EvalParsedContent(
                           content,
                           IF parses = <<>> THEN <<>>
                           ELSE parses[Len(parses)].value.steps,
                           0)])
  /\ UNCHANGED <<grammar, nTokens, pageVars, channelVars,
                 layoutVars, otherThanView>>

NextView == \E content \in ViewContents : Reparse(content)

SpecView == InitParse("view") /\ [][NextView]_vars

(***************************************************************************)
(* pages/agent/Index.vue: the event-driven chat page.                      *)
(***************************************************************************)
MaxSends == 2
MaxConversations == 3
MaxEvents == 3

UserInputs == {<<"q">>}
Payloads == {<<"a">>, <<"b">>}
ToolResults == {<<"r">>}
Errors == {<<"e">>}

\* the error template of the catch blocks: a cross mark, " ", two CJK
\* characters, ": ", the error
ErrorText(error) == <<"U+274C", " ", "U+9519", "U+8BEF", ":", " ">> \o error

\* messages.value.find(m => m.id === id): the 1-based position of the first
\* message with that id, 0 if none
Find(msgs, id) ==
  IF \E i \in 1..Len(msgs) : msgs[i].id = id
  THEN CHOOSE i \in 1..Len(msgs) :
         msgs[i].id = id /\ \A j \in 1..(i - 1) : msgs[j].id # id
  ELSE 0

\* the content of message id, <<>> when it is not in the list
ContentOf(msgs, id) ==
  IF Find(msgs, id) = 0 THEN <<>> ELSE msgs[Find(msgs, id)].content

SetContent(msgs, id, c) ==
  IF Find(msgs, id) = 0 THEN msgs
  ELSE [msgs EXCEPT ![Find(msgs, id)].content = c]

RECURSIVE TotalEvents(_)
\* the stream events delivered so far, over all calls
TotalEvents(cs) ==
  IF cs = <<>> THEN 0 ELSE Head(cs).nEvents + TotalEvents(Tail(cs))

\* ChatInput.handleSend: "if (!inputMessage.value.trim() || props.disabled) return"
\* with :disabled="isLoading"
CanSend(content) == Trim(content) # <<>> /\ ~isLoading

IndexHandleSend(content) ==
  /\ CanSend(content)
  /\ Len(calls) < MaxSends
  /\ messages' = messages
                   \o <<[id |-> now, role |-> "user", content |-> content],
                        [id |-> now + 1, role |-> "assistant", content |-> <<>>]>>
  /\ isLoading' = TRUE
  /\ streamingMessageId' = now + 1
  /\ calls' = Append(calls, [aiMessageId |-> now + 1, phase |-> "running",
                             outcome |-> "none", delivered |-> <<>>,
                             nEvents |-> 0, ended |-> FALSE])
  /\ now' = now + 2
  /\ UNCHANGED <<parserVars, channelVars, layoutVars, appVars>>

\* the 'chat-token' listener, run for a token the backend emits for call c
IndexChatToken(c, payload) ==
  /\ calls[c].phase = "running"
  /\ TotalEvents(calls) < MaxEvents
  /\ messages' = IF streamingMessageId # 0
                 THEN SetContent(messages, streamingMessageId,
                                 ContentOf(messages, streamingMessageId)
                                   \o payload)
                 ELSE messages
  /\ calls' = [calls EXCEPT ![c].delivered = @ \o payload,
                            ![c].nEvents = @ + 1]
  /\ UNCHANGED <<isLoading, streamingMessageId, now,
                 parserVars, channelVars, layoutVars, appVars>>

\* the tool-result template: newline, "Result: ", the result, newline
ToolResultText(result) == <<"\n">> \o ResultMark \o <<" ">> \o result \o <<"\n">>

\* the 'tool-result' listener
IndexToolResult(c, result) ==
  /\ calls[c].phase = "running"
  /\ TotalEvents(calls) < MaxEvents
  /\ messages' = IF streamingMessageId # 0
                 THEN SetContent(messages, streamingMessageId,
                                 ContentOf(messages, streamingMessageId)
                                   \o ToolResultText(result))
                 ELSE messages
  /\ calls' = [calls EXCEPT ![c].delivered = @ \o ToolResultText(result),
                            ![c].nEvents = @ + 1]
  /\ UNCHANGED <<isLoading, streamingMessageId, now,
                 parserVars, channelVars, layoutVars, appVars>>

\* the 'chat-done' listener
IndexChatDone(c) ==
  /\ calls[c].phase = "running"
  /\ isLoading' = FALSE
  /\ streamingMessageId' = 0
  /\ calls' = [calls EXCEPT ![c].phase = "done", ![c].ended = TRUE]
  /\ UNCHANGED <<messages, now, parserVars, channelVars, layoutVars, appVars>>

\* invoke('chat') resolves: the finally block of handleSend
IndexInvokeResolve(c) ==
  /\ calls[c].phase \in {"running", "done"}
  /\ isLoading' = FALSE
  /\ streamingMessageId' = 0
  /\ calls' = [calls EXCEPT ![c].phase = "settled", ![c].outcome = "resolved"]
  /\ UNCHANGED <<messages, now, parserVars, channelVars, layoutVars, appVars>>

\* invoke('chat') rejects: the catch block, then the finally block
IndexInvokeReject(c, error) ==
  /\ calls[c].phase \in {"running", "done"}
  /\ messages' = SetContent(messages, calls[c].aiMessageId, ErrorText(error))
  /\ isLoading' = FALSE
  /\ streamingMessageId' = 0
  /\ calls' = [calls EXCEPT ![c].phase = "settled", ![c].outcome = "rejected",
                            ![c].ended = TRUE]
  /\ UNCHANGED <<now, parserVars, channelVars, layoutVars, appVars>>

\* the ids of the conversations, in list order
ConversationIds(convs) == [i \in 1..Len(convs) |-> convs[i].id]

\* Math.max(...ids)
MaxId(ids) ==
  CHOOSE m \in {ids[i] : i \in 1..Len(ids)} :
    \A i \in 1..Len(ids) : ids[i] <= m

\* the title of a conversation just created
NewTitle == <<"U+65B0", "U+5BF9", "U+8BDD">>

\* createConversation
IndexCreateConversation ==
  LET ids == ConversationIds(conversations)
      newId == IF Len(ids) > 0 THEN MaxId(ids) + 1 ELSE 1
  IN  /\ newId <= MaxConversations
      /\ conversations' = <<[id |-> newId, title |-> NewTitle]>>
                             \o conversations
      /\ currentConversationId' = newId
      /\ messages' = <<>>
      /\ UNCHANGED <<isLoading, streamingMessageId, now, calls,
                 targetId, parserVars, channelVars,
                 layoutVars, otherThanConv>>

NextIndex ==
  \/ \E content \in UserInputs : IndexHandleSend(content)
  \/ IndexCreateConversation
  \/ \E c \in 1..Len(calls) : \E payload \in Payloads : IndexChatToken(c, payload)
  \/ \E c \in 1..Len(calls) : \E result \in ToolResults : IndexToolResult(c, result)
  \/ \E c \in 1..Len(calls) : IndexChatDone(c)
  \/ \E c \in 1..Len(calls) : IndexInvokeResolve(c)
  \/ \E c \in 1..Len(calls) : \E error \in Errors : IndexInvokeReject(c, error)

InitPage == ParserIdle /\ PageIdle /\ ChannelIdle /\ LayoutIdle /\ AppIdle

SpecIndex == InitPage /\ [][NextIndex]_vars

(***************************************************************************)
(* pages/agent/Index.vue with components/agent/ConversationList.vue: the   *)
(* conversation list, its popup menu and its rename dialog.                *)
(***************************************************************************)
RenameTitles == {<<"t">>, <<" ">>}

\* selectConversation, from a click on an item of the list
IndexSelectConversation(id) ==
  /\ currentConversationId' = id
  /\ UNCHANGED <<conversations, targetId, pageVars, parserVars,
                 channelVars, layoutVars, otherThanConv>>

\* showMenu, from the menu button of an item of the list
ListShowMenu(id) ==
  /\ targetId' = id
  /\ UNCHANGED <<conversations, currentConversationId, pageVars,
                 parserVars, channelVars, layoutVars,
                 otherThanConv>>

RECURSIVE WithoutId(_, _)
\* conversations.value.filter((c) => c.id !== id)
WithoutId(convs, id) ==
  IF convs = <<>> THEN <<>>
  ELSE (IF Head(convs).id # id THEN <<Head(convs)>> ELSE <<>>)
       \o WithoutId(Tail(convs), id)

\* deleteConversation(id)
deleteConversation(id) ==
  LET left == WithoutId(conversations, id)
  IN  /\ conversations' = left
      /\ currentConversationId' =
           IF currentConversationId = id /\ Len(left) > 0
           THEN left[1].id
           ELSE currentConversationId

\* the delete item of the popup menu: emit('delete', targetId.value)
ListMenuDelete ==
  /\ targetId # 0
  /\ deleteConversation(targetId)
  /\ UNCHANGED <<targetId, pageVars, parserVars, channelVars,
                 layoutVars, otherThanConv>>

\* renameConversation({ id, title })
renameConversation(id, title) ==
  [i \in 1..Len(conversations) |->
     IF conversations[i].id = id
     THEN [conversations[i] EXCEPT !.title = title]
     ELSE conversations[i]]

\* the rename item of the popup menu: openRenameDialog opens the modal
\* dialog when the target is in the list, confirmRename emits the trimmed
\* title when it is not blank
ListMenuRename(title) ==
  /\ targetId # 0
  /\ \E i \in 1..Len(conversations) : conversations[i].id = targetId
  /\ conversations' = IF Trim(title) # <<>>
                      THEN renameConversation(targetId, Trim(title))
                      ELSE conversations
  /\ UNCHANGED <<currentConversationId, targetId, pageVars,
                 parserVars, channelVars, layoutVars,
                 otherThanConv>>

NextConversations ==
  \/ IndexCreateConversation
  \/ \E i \in 1..Len(conversations) :
       IndexSelectConversation(conversations[i].id)
  \/ \E i \in 1..Len(conversations) : ListShowMenu(conversations[i].id)
  \/ ListMenuDelete
  \/ \E title \in RenameTitles : ListMenuRename(title)

SpecConversations == InitPage /\ [][NextConversations]_vars

(***************************************************************************)
(* pages/agent/ChatInput.vue, second script block: the channel-based chat  *)
(* page with the throttled Markdown cache.  A message object is named by   *)
(* its id; a handler that holds a message no longer in the list changes    *)
(* nothing the page shows.                                                 *)
(***************************************************************************)
MAX_MESSAGES == 200

MaxChannelSends == 2
MaxChannelEvents == 3

ChannelData == {<<"a">>}
ToolNames == {<<"t">>}

\* marked.parse: the external Markdown renderer, a function of its input
markedParse(content) == <<"<p>">> \o content \o <<"</p>", "\n">>

renderMarkdown(content) ==
  IF content = <<>> THEN <<>> ELSE markedParse(content)

\* the error marker template: newline, "[", two CJK characters, ": ", the
\* data, "]"
ChannelErrorText(data) ==
  <<"\n", "[", "U+9519", "U+8BEF", ":", " ">> \o data \o <<"]">>

\* the tool-call template: two newlines, a wrench sign, " ", four CJK
\* characters, ": ", the tool name between backquotes (U+0060), a newline
ToolCallText(name) ==
  <<"\n", "\n", "U+1F527", " ", "U+4F7F", "U+7528", "U+5DE5", "U+5177",
    ":", " ", "U+0060">> \o name \o <<"U+0060", "\n">>

\* updateRenderedContent(msg), msg named by id
updateRenderedContent(msgs, id) ==
  LET i == Find(msgs, id)
  IN  IF i = 0 THEN msgs
      ELSE IF msgs[i].content # <<>>
      THEN [msgs EXCEPT ![i].renderedContent = markedParse(msgs[i].content)]
      ELSE msgs

\* the v-html binding of a message: renderedContent || renderMarkdown(content)
displayedHtml(msg) ==
  IF msg.renderedContent # <<>> THEN msg.renderedContent
  ELSE renderMarkdown(msg.content)

\* scheduleRender without its "if (renderTimer) return"
scheduleRenderUnguarded(id) ==
  [renderTimer |-> id, timeouts |-> Append(timeouts, id)]

\* scheduleRender(msg): renderTimer and the pending callbacks after the call
scheduleRender(id) ==
  IF renderTimer # 0
  THEN [renderTimer |-> renderTimer, timeouts |-> timeouts]
  ELSE [renderTimer |-> id, timeouts |-> Append(timeouts, id)]

\* messages.value.slice(-MAX_MESSAGES + 2)
\* the list kept whole
SliceNone(msgs, n) == msgs

SliceLast(msgs, n) ==
  IF Len(msgs) > n THEN SubSeq(msgs, Len(msgs) - n + 1, Len(msgs)) ELSE msgs

\* messages.value.forEach(msg => { if (msg.isTyping) msg.isTyping = false })
ClearTypingFlags(msgs) ==
  [i \in 1..Len(msgs) |->
     IF msgs[i].role = "assistant" THEN [msgs[i] EXCEPT !.isTyping = FALSE]
     ELSE msgs[i]]

\* currentMsg.isTyping = false
StopTyping(msgs, id) ==
  IF Find(msgs, id) = 0 THEN msgs
  ELSE [msgs EXCEPT ![Find(msgs, id)].isTyping = FALSE]

ChannelSend(content) ==
  /\ Trim(content) # <<>>
  /\ ~isTyping
  /\ Len(calls) < MaxChannelSends
  /\ LET c == Len(calls) + 1
         kept == IF Len(messages) >= MAX_MESSAGES
                 THEN SliceLast(ClearTypingFlags(messages), MAX_MESSAGES - 2)
                 ELSE ClearTypingFlags(messages)
     IN  /\ messages' = kept
              \o <<[id |-> 2 * c - 1, role |-> "user", content |-> content],
                   [id |-> 2 * c, role |-> "assistant", content |-> <<>>,
                    renderedContent |-> <<>>, thinkingContent |-> <<>>,
                    isTyping |-> TRUE, isThinking |-> FALSE,
                    isThinkingComplete |-> FALSE]>>
         /\ calls' = Append(calls, [aiMessageId |-> 2 * c, phase |-> "running",
                                    outcome |-> "none", delivered |-> <<>>,
                                    nEvents |-> 0, ended |-> FALSE])
  /\ isTyping' = TRUE
  /\ isReceiving' = TRUE
  /\ UNCHANGED <<isLoading, streamingMessageId, now, renderTimer, timeouts,
                 parserVars, layoutVars, appVars>>

\* an event of call c that is not terminal may be delivered
ChannelOpen(c) ==
  calls[c].phase = "running" /\ TotalEvents(calls) < MaxChannelEvents

ChannelThinkBegin(c) ==
  /\ ChannelOpen(c)
  /\ LET i == Find(messages, calls[c].aiMessageId)
     IN  messages' = IF i = 0 THEN messages
                     ELSE [messages EXCEPT ![i].isThinking = TRUE]
  /\ calls' = [calls EXCEPT ![c].nEvents = @ + 1]
  /\ UNCHANGED <<isLoading, streamingMessageId, now, channelVars,
                 parserVars, layoutVars, appVars>>

ChannelThinkEnd(c) ==
  /\ ChannelOpen(c)
  /\ LET i == Find(messages, calls[c].aiMessageId)
     IN  messages' = IF i = 0 THEN messages
                     ELSE [messages EXCEPT ![i].isThinking = FALSE,
                                           ![i].isThinkingComplete = TRUE]
  /\ calls' = [calls EXCEPT ![c].nEvents = @ + 1]
  /\ UNCHANGED <<isLoading, streamingMessageId, now, channelVars,
                 parserVars, layoutVars, appVars>>

ChannelToken(c, data) ==
  /\ ChannelOpen(c)
  /\ LET i == Find(messages, calls[c].aiMessageId)
         thinking == i # 0 /\ messages[i].isThinking
     IN  /\ messages' = IF i = 0 THEN messages
                        ELSE IF thinking
                        THEN [messages EXCEPT ![i].thinkingContent = @ \o data]
                        ELSE [messages EXCEPT ![i].content = @ \o data]
         /\ renderTimer' = IF thinking THEN renderTimer
                           ELSE scheduleRender(calls[c].aiMessageId).renderTimer
         /\ timeouts' = IF thinking THEN timeouts
                         ELSE scheduleRender(calls[c].aiMessageId).timeouts
         /\ calls' = [calls EXCEPT
                        ![c].delivered = IF thinking THEN @ ELSE @ \o data,
                        ![c].nEvents = @ + 1]
  /\ UNCHANGED <<isLoading, streamingMessageId, now, isTyping, isReceiving,
                 parserVars, layoutVars, appVars>>

ChannelToolCall(c, name) ==
  /\ ChannelOpen(c)
  /\ messages' = SetContent(messages, calls[c].aiMessageId,
                            ContentOf(messages, calls[c].aiMessageId)
                              \o ToolCallText(name))
  /\ renderTimer' = scheduleRender(calls[c].aiMessageId).renderTimer
  /\ timeouts' = scheduleRender(calls[c].aiMessageId).timeouts
  /\ calls' = [calls EXCEPT ![c].delivered = @ \o ToolCallText(name),
                            ![c].nEvents = @ + 1]
  /\ UNCHANGED <<isLoading, streamingMessageId, now, isTyping, isReceiving,
                 parserVars, layoutVars, appVars>>

\* event.type === 'ToolResult': ignored
ChannelToolResult(c) ==
  /\ ChannelOpen(c)
  /\ calls' = [calls EXCEPT ![c].nEvents = @ + 1]
  /\ UNCHANGED <<messages, isLoading, streamingMessageId, now, channelVars,
                 parserVars, layoutVars, appVars>>

ChannelDone(c) ==
  /\ calls[c].phase = "running"
  /\ isReceiving' = FALSE
  /\ isTyping' = FALSE
  /\ messages' = updateRenderedContent(StopTyping(messages, calls[c].aiMessageId),
                                       calls[c].aiMessageId)
  /\ calls' = [calls EXCEPT ![c].phase = "done", ![c].ended = TRUE]
  /\ UNCHANGED <<isLoading, streamingMessageId, now, renderTimer, timeouts,
                 parserVars, layoutVars, appVars>>

ChannelError(c, data) ==
  /\ calls[c].phase = "running"
  /\ messages' = StopTyping(SetContent(messages, calls[c].aiMessageId,
                                       ContentOf(messages, calls[c].aiMessageId)
                                         \o ChannelErrorText(data)),
                            calls[c].aiMessageId)
  /\ isReceiving' = FALSE
  /\ isTyping' = FALSE
  /\ calls' = [calls EXCEPT ![c].phase = "error", ![c].ended = TRUE]
  /\ UNCHANGED <<isLoading, streamingMessageId, now, renderTimer, timeouts,
                 parserVars, layoutVars, appVars>>

\* await invoke('chat', ...) resolves: sendMessage returns
ChannelInvokeResolve(c) ==
  /\ calls[c].phase \in {"running", "done", "error"}
  /\ calls' = [calls EXCEPT ![c].phase = "settled", ![c].outcome = "resolved"]
  /\ UNCHANGED <<messages, isLoading, streamingMessageId, now, channelVars,
                 parserVars, layoutVars, appVars>>

\* await invoke('chat', ...) rejects: the catch block
ChannelInvokeReject(c, e) ==
  /\ calls[c].phase \in {"running", "done", "error"}
  /\ messages' = StopTyping(SetContent(messages, calls[c].aiMessageId,
                                       ContentOf(messages, calls[c].aiMessageId)
                                         \o ChannelErrorText(e)),
                            calls[c].aiMessageId)
  /\ isReceiving' = FALSE
  /\ isTyping' = FALSE
  /\ calls' = [calls EXCEPT ![c].phase = "settled", ![c].outcome = "rejected",
                            ![c].ended = TRUE]
  /\ UNCHANGED <<isLoading, streamingMessageId, now, renderTimer, timeouts,
                 parserVars, layoutVars, appVars>>

\* the setTimeout callback of scheduleRender
RenderTimerFire ==
  /\ timeouts # <<>>
  /\ renderTimer' = 0
  /\ messages' = updateRenderedContent(messages, Head(timeouts))
  /\ timeouts' = Tail(timeouts)
  /\ UNCHANGED <<isLoading, streamingMessageId, now, calls,
                 isTyping, isReceiving, parserVars, layoutVars, appVars>>

ChannelClearMessages ==
  /\ messages # <<>>
  /\ messages' = <<>>
  /\ UNCHANGED <<isLoading, streamingMessageId, now, calls, channelVars,
                 parserVars, layoutVars, appVars>>

NextChannel ==
  \/ \E content \in UserInputs : ChannelSend(content)
  \/ \E c \in 1..Len(calls) : ChannelThinkBegin(c)
  \/ \E c \in 1..Len(calls) : ChannelThinkEnd(c)
  \/ \E c \in 1..Len(calls) : \E data \in ChannelData : ChannelToken(c, data)
  \/ \E c \in 1..Len(calls) : \E name \in ToolNames : ChannelToolCall(c, name)
  \/ \E c \in 1..Len(calls) : ChannelToolResult(c)
  \/ \E c \in 1..Len(calls) : ChannelDone(c)
  \/ \E c \in 1..Len(calls) : \E data \in Errors : ChannelError(c, data)
  \/ \E c \in 1..Len(calls) : ChannelInvokeResolve(c)
  \/ \E c \in 1..Len(calls) : \E e \in Errors : ChannelInvokeReject(c, e)
  \/ RenderTimerFire
  \/ ChannelClearMessages

SpecChannel == InitPage /\ [][NextChannel]_vars

(***************************************************************************)
(* The same page after earlier exchanges: the list holds the user message  *)
(* and the finished reply of each of them, and the page sends, finishes    *)
(* and clears from there.  (The earlier messages get negative ids.)        *)
(***************************************************************************)
\* the list after n / 2 exchanges, each sent by sendMessage and ended by Done
ChannelHistory(n) ==
  [i \in 1..n |->
     IF i % 2 = 1
     THEN [id |-> -i, role |-> "user", content |-> <<"q">>]
     ELSE [id |-> -i, role |-> "assistant", content |-> <<"a">>,
           renderedContent |-> markedParse(<<"a">>),
           thinkingContent |-> <<>>, isTyping |-> FALSE,
           isThinking |-> FALSE, isThinkingComplete |-> FALSE]]

\* the exchanges still missing to a full list, at most
MaxRoom == 3

InitChannelHistory ==
  /\ \E room \in 0..MaxRoom :
       messages = ChannelHistory(MAX_MESSAGES - 2 * room)
  /\ isLoading = FALSE /\ streamingMessageId = 0 /\ now = 1 /\ calls = <<>>
  /\ ParserIdle /\ ChannelIdle /\ LayoutIdle /\ AppIdle

NextChannelHistory ==
  \/ \E content \in UserInputs : ChannelSend(content)
  \/ \E c \in 1..Len(calls) : \E data \in ChannelData : ChannelToken(c, data)
  \/ \E c \in 1..Len(calls) : ChannelDone(c)
  \/ \E c \in 1..Len(calls) : \E e \in Errors : ChannelInvokeReject(c, e)
  \/ RenderTimerFire
  \/ ChannelClearMessages

SpecChannelHistory == InitChannelHistory /\ [][NextChannelHistory]_vars

(***************************************************************************)
(* layouts/AppLayout.vue, second script block, with chatStream of          *)
(* router.js: the chat page that streams from the completion API.          *)
(***************************************************************************)
MaxLayoutSends == 2
MaxLayoutEvents == 3

LayoutData == {AtLine(ThoughtMark), <<"a">>}
ReasoningData == {<<"r">>}

\* cleanThinkTags(content)
cleanThinkTags(content) ==
  Trim(CutFromThinkOpen(RemovePairs(content, ThinkOpen, ThinkClose)))

RECURSIVE HistoryOf(_)
\* messages.value.filter(user or assistant).map({role, content})
HistoryOf(msgs) ==
  IF msgs = <<>> THEN <<>>
  ELSE (IF Head(msgs).role \in {"user", "assistant"}
        THEN <<[role |-> Head(msgs).role,
                content |-> IF Head(msgs).role = "assistant"
                            THEN cleanThinkTags(Head(msgs).content)
                            ELSE Head(msgs).content]>>
        ELSE <<>>)
       \o HistoryOf(Tail(msgs))

buildMessages(msgs, userContent) ==
  Append(HistoryOf(msgs), [role |-> "user", content |-> userContent])

\* onToken
onToken(content, token) == content \o token

\* str.replace(/<\/think>$/, token)
ReplaceFinalThinkClose(str, token) ==
  IF Len(str) >= 8 /\ SubSeq(str, Len(str) - 7, Len(str)) = ThinkClose
  THEN SubSeq(str, 1, Len(str) - 8) \o token
  ELSE str

\* onReasoning
onReasoning(content, token) ==
  IF ~Includes(content, ThinkOpen) THEN ThinkOpen \o token
  ELSE IF Includes(content, ThinkClose)
  THEN ReplaceFinalThinkClose(content, token)
  ELSE content \o token

\* onDone
onDone(content) ==
  IF Includes(content, ThinkOpen) /\ ~Includes(content, ThinkClose)
  THEN content \o ThinkClose
  ELSE content

LayoutHandleSend(content) ==
  /\ mounted
  /\ CanSend(content)
  /\ Len(calls) < MaxLayoutSends
  /\ LET pushed == messages
                     \o <<[id |-> now, role |-> "user", content |-> content],
                          [id |-> now + 1, role |-> "assistant",
                           content |-> <<>>, reasoning |-> <<>>]>>
     IN  /\ messages' = pushed
         /\ calls' = Append(calls,
                            [aiMessageId |-> now + 1, phase |-> "running",
                             outcome |-> "none", delivered |-> <<>>,
                             nEvents |-> 0, ended |-> FALSE,
                             aborted |-> FALSE, reasoning |-> <<>>,
                             apiMessages |-> buildMessages(pushed, content)])
  /\ isLoading' = TRUE
  /\ streamingMessageId' = now + 1
  /\ abortController' = Len(calls) + 1
  /\ now' = now + 2
  /\ UNCHANGED <<mounted, parserVars, channelVars, appVars>>

\* one chunk of the stream: delta.reasoning_content and delta.content,
\* either of which may be empty
LayoutChunk(c, reasoning, token) ==
  /\ calls[c].phase = "running"
  /\ ~calls[c].aborted
  /\ TotalEvents(calls) < MaxLayoutEvents
  /\ reasoning # <<>> \/ token # <<>>
  /\ LET id == calls[c].aiMessageId
         c0 == ContentOf(messages, id)
         c1 == IF reasoning # <<>> THEN onReasoning(c0, reasoning) ELSE c0
         c2 == IF token # <<>> THEN onToken(c1, token) ELSE c1
     IN  messages' = SetContent(messages, id, c2)
  /\ calls' = [calls EXCEPT ![c].delivered = @ \o token,
                            ![c].reasoning = @ \o reasoning,
                            ![c].nEvents = @ + 1]
  /\ UNCHANGED <<isLoading, streamingMessageId, now, layoutVars,
                 parserVars, channelVars, appVars>>

\* the finally block of handleSend
LayoutFinally ==
  /\ isLoading' = FALSE
  /\ streamingMessageId' = 0
  /\ abortController' = 0

\* the stream ends: onDone, chatStream returns, finally
LayoutStreamEnd(c) ==
  /\ calls[c].phase = "running"
  /\ ~calls[c].aborted
  /\ messages' = SetContent(messages, calls[c].aiMessageId,
                            onDone(ContentOf(messages, calls[c].aiMessageId)))
  /\ calls' = [calls EXCEPT ![c].phase = "settled", ![c].outcome = "done",
                            ![c].ended = TRUE]
  /\ LayoutFinally
  /\ UNCHANGED <<now, mounted, parserVars, channelVars, appVars>>

\* the request or the stream throws: onError, rethrow, catch, finally
LayoutStreamError(c, error) ==
  /\ calls[c].phase = "running"
  /\ ~calls[c].aborted
  /\ LET id == calls[c].aiMessageId
         afterOnError == SetContent(messages, id, ErrorText(error))
     IN  messages' = IF Find(afterOnError, id) # 0
                        /\ ContentOf(afterOnError, id) = <<>>
                     THEN SetContent(afterOnError, id, ErrorText(error))
                     ELSE afterOnError
  /\ calls' = [calls EXCEPT ![c].phase = "settled", ![c].outcome = "error",
                            ![c].ended = TRUE]
  /\ LayoutFinally
  /\ UNCHANGED <<now, mounted, parserVars, channelVars, appVars>>

\* onUnmounted: abortController.abort()
LayoutUnmount ==
  /\ mounted
  /\ mounted' = FALSE
  /\ calls' = IF abortController # 0
              THEN [calls EXCEPT ![abortController].aborted = TRUE]
              ELSE calls
  /\ UNCHANGED <<messages, isLoading, streamingMessageId, now,
                 abortController, parserVars, channelVars, appVars>>

\* the aborted request throws AbortError: onDone({aborted: true}), return,
\* finally
LayoutStreamAbort(c) ==
  /\ calls[c].phase = "running"
  /\ calls[c].aborted
  /\ messages' = SetContent(messages, calls[c].aiMessageId,
                            onDone(ContentOf(messages, calls[c].aiMessageId)))
  /\ calls' = [calls EXCEPT ![c].phase = "settled", ![c].outcome = "aborted",
                            ![c].ended = TRUE]
  /\ LayoutFinally
  /\ UNCHANGED <<now, mounted, parserVars, channelVars, appVars>>

\* clearMessages, behind a button disabled while loading or with no message
LayoutClearMessages ==
  /\ mounted
  /\ messages # <<>>
  /\ ~isLoading
  /\ messages' = <<>>
  /\ UNCHANGED <<isLoading, streamingMessageId, now, calls, layoutVars,
                 parserVars, channelVars, appVars>>

NextLayout ==
  \/ \E content \in UserInputs : LayoutHandleSend(content)
  \/ LayoutClearMessages
  \/ \E c \in 1..Len(calls) :
       \E reasoning \in ReasoningData \cup {<<>>} :
         \E token \in LayoutData \cup {<<>>} : LayoutChunk(c, reasoning, token)
  \/ \E c \in 1..Len(calls) : LayoutStreamEnd(c)
  \/ \E c \in 1..Len(calls) : \E error \in Errors : LayoutStreamError(c, error)
  \/ LayoutUnmount
  \/ \E c \in 1..Len(calls) : LayoutStreamAbort(c)

SpecLayout == InitPage /\ [][NextLayout]_vars

(***************************************************************************)
(* unnamed/part_004: the database module.  Each Database.load that         *)
(* resolves gives a new instance, named by the call that started it.       *)
(***************************************************************************)
MaxDbCalls == 4

\* initDb is called: "if (!db)" is decided at once, Database.load is
\* invoked when db is null, and the call waits for it; else the call
\* returns db
InitDbCall ==
  /\ Len(dbCalls) < MaxDbCalls
  /\ dbCalls' = Append(dbCalls,
                       IF db = 0
                       THEN [phase |-> "loading", loaded |-> TRUE, result |-> 0]
                       ELSE [phase |-> "returned", loaded |-> FALSE,
                             result |-> db])
  /\ UNCHANGED <<db, parserVars, pageVars, channelVars,
                 layoutVars, otherThanDb>>

\* the load of call c resolves: "db = await Database.load(...)", "return db"
DbLoadResolve(c) ==
  /\ dbCalls[c].phase = "loading"
  /\ db' = c
  /\ dbCalls' = [dbCalls EXCEPT ![c].phase = "returned", ![c].result = c]
  /\ UNCHANGED <<parserVars, pageVars, channelVars, layoutVars,
                 otherThanDb>>

\* the load of call c rejects: initDb rejects and db is left as it is
DbLoadReject(c) ==
  /\ dbCalls[c].phase = "loading"
  /\ dbCalls' = [dbCalls EXCEPT ![c].phase = "failed"]
  /\ UNCHANGED <<db, parserVars, pageVars, channelVars,
                 layoutVars, otherThanDb>>

NextDb ==
  \/ InitDbCall
  \/ \E c \in 1..Len(dbCalls) : DbLoadResolve(c)
  \/ \E c \in 1..Len(dbCalls) : DbLoadReject(c)

SpecDb == InitPage /\ [][NextDb]_vars

(***************************************************************************)
(* pages/AgentPage.vue, second script block: the agent list, its popup     *)
(* menu, the download dialog and the download timers.  An agent object is  *)
(* named by its position in agentObjs; a name of availableAgents is stood  *)
(* for by its id, the two being paired one to one.                         *)
(***************************************************************************)
MaxDownloads == 2

\* the ids of availableAgents
AvailableIds == {101, 102, 103}

\* the value agent.progress is looked at in after 0: a run of ticks of one
\* interval, each adding 2 to 6 and capped, takes it there
ProgressMarks == {100}

\* the checked agents of the dialog: one, or two checked in the order of
\* the dialog's rows
Selections ==
  {<<a>> : a \in AvailableIds}
  \cup {s \in {<<a, b>> : a, b \in AvailableIds} : s[1] < s[2]}

\* agents.value.find((a) => a.id === id), found or not
InList(list, objs, id) == \E i \in 1..Len(list) : objs[list[i]].id = id

\* the menu button of a row: v-if="!agent.isDefault || agent.status ===
\* 'downloading'"
MenuButtonShown(o) ==
  ~agentObjs[o].isDefault \/ agentObjs[o].status = "downloading"

\* toggleMenu: the popup is shown or, when it was shown, hidden or shown
\* anew
toggleMenu(i) ==
  /\ MenuButtonShown(agents[i])
  /\ selectedAgent' = agents[i]
  /\ menuVisible' \in (IF menuVisible THEN BOOLEAN ELSE {TRUE})
  /\ UNCHANGED <<agents, agentObjs, intervals, parserVars, pageVars,
                 channelVars, layoutVars, otherThanAgent>>

\* a click outside the popup
MenuHide ==
  /\ menuVisible
  /\ menuVisible' = FALSE
  /\ UNCHANGED <<agents, agentObjs, selectedAgent, intervals, parserVars,
                 pageVars, channelVars, layoutVars, otherThanAgent>>

\* the objects of the list left as they are
KeepDefaults(list, objs) == objs

\* agents.value.forEach((a) => (a.isDefault = false))
ClearDefaults(list, objs) ==
  [o \in 1..Len(objs) |->
     IF \E i \in 1..Len(list) : list[i] = o
     THEN [objs[o] EXCEPT !.isDefault = FALSE]
     ELSE objs[o]]

setAsDefault(o) ==
  [ClearDefaults(agents, agentObjs) EXCEPT ![o].isDefault = TRUE]

RECURSIVE WithoutAgent(_, _, _)
\* agents.value.filter((a) => a.id !== id)
WithoutAgent(list, objs, id) ==
  IF list = <<>> THEN <<>>
  ELSE (IF objs[Head(list)].id # id THEN <<Head(list)>> ELSE <<>>)
       \o WithoutAgent(Tail(list), objs, id)

deleteAgent(o) == WithoutAgent(agents, agentObjs, agentObjs[o].id)

\* the items of agentMenuItems, for the object the menu was opened on
IsDownloading == agentObjs[selectedAgent].status = "downloading"

\* the item "set as default": shown when the agent is not downloading,
\* disabled for the default agent
MenuSetAsDefault ==
  /\ menuVisible /\ selectedAgent # 0
  /\ ~IsDownloading
  /\ ~agentObjs[selectedAgent].isDefault
  /\ agentObjs' = setAsDefault(selectedAgent)
  /\ menuVisible' = FALSE
  /\ UNCHANGED <<agents, selectedAgent, intervals, parserVars, pageVars,
                 channelVars, layoutVars, otherThanAgent>>

\* the item "delete": disabled for the default agent unless it is
\* downloading
MenuDelete ==
  /\ menuVisible /\ selectedAgent # 0
  /\ IsDownloading \/ ~agentObjs[selectedAgent].isDefault
  /\ agents' = deleteAgent(selectedAgent)
  /\ menuVisible' = FALSE
  /\ UNCHANGED <<agentObjs, selectedAgent, intervals, parserVars, pageVars,
                 channelVars, layoutVars, otherThanAgent>>

\* the item "stop download": shown when the agent is downloading
MenuStopDownload ==
  /\ menuVisible /\ selectedAgent # 0
  /\ IsDownloading
  /\ agents' = deleteAgent(selectedAgent)
  /\ menuVisible' = FALSE
  /\ UNCHANGED <<agentObjs, selectedAgent, intervals, parserVars, pageVars,
                 channelVars, layoutVars, otherThanAgent>>

RECURSIVE PushDownloads(_, _)
\* the forEach of startDownload over the checked agents: st holds the list,
\* the objects and the intervals so far
PushDownloads(st, selection) ==
  IF selection = <<>> THEN st
  ELSE IF InList(st.agents, st.agentObjs, Head(selection))
  THEN PushDownloads(st, Tail(selection))
  ELSE LET o == Len(st.agentObjs) + 1
       IN  PushDownloads(
             [agents |-> Append(st.agents, o),
              agentObjs |-> Append(st.agentObjs,
                                   [id |-> Head(selection),
                                    status |-> "downloading",
                                    isDefault |-> FALSE, progress |-> 0]),
              intervals |-> st.intervals \cup {o}],
             Tail(selection))

\* startDownload, from the dialog button, enabled when an agent is checked
startDownload(selection) ==
  LET st == PushDownloads([agents |-> agents, agentObjs |-> agentObjs,
                           intervals |-> intervals], selection)
  IN  /\ Len(st.agentObjs) <= 3 + MaxDownloads
      /\ agents' = st.agents
      /\ agentObjs' = st.agentObjs
      /\ intervals' = st.intervals
      /\ UNCHANGED <<selectedAgent, menuVisible, parserVars, pageVars,
                     channelVars, layoutVars, otherThanAgent>>

\* the setInterval callback of simulateDownload for the object o
DownloadTick(o) ==
  /\ o \in intervals
  /\ IF ~InList(agents, agentObjs, agentObjs[o].id)
     THEN /\ intervals' = intervals \ {o}
          /\ UNCHANGED agentObjs
     ELSE IF agentObjs[o].progress < 100
     THEN /\ \E v \in ProgressMarks :
               /\ v > agentObjs[o].progress
               /\ agentObjs' = [agentObjs EXCEPT ![o].progress = v]
          /\ UNCHANGED intervals
     ELSE /\ agentObjs' = [agentObjs EXCEPT ![o].status = "ready"]
          /\ intervals' = intervals \ {o}
  /\ UNCHANGED <<agents, selectedAgent, menuVisible, parserVars, pageVars,
                 channelVars, layoutVars, otherThanAgent>>

NextAgents ==
  \/ \E i \in 1..Len(agents) : toggleMenu(i)
  \/ MenuHide
  \/ MenuSetAsDefault
  \/ MenuDelete
  \/ MenuStopDownload
  \/ \E selection \in Selections : startDownload(selection)
  \/ \E o \in 1..Len(agentObjs) : DownloadTick(o)

SpecAgents == InitPage /\ [][NextAgents]_vars

(***************************************************************************)
(* Vocabulary of the properties.                                           *)
(***************************************************************************)
IsPrefix(a, b) == Len(a) <= Len(b) /\ SubSeq(b, 1, Len(a)) = a

EndsWith(s, p) ==
  Len(s) >= Len(p) /\ SubSeq(s, Len(s) - Len(p) + 1, Len(s)) = p

NoThinkTag(s) == ~Includes(s, ThinkOpen) /\ ~Includes(s, ThinkClose)

RECURSIVE CountChar(_, _)
CountChar(s, c) ==
  IF s = <<>> THEN 0
  ELSE (IF Head(s) = c THEN 1 ELSE 0) + CountChar(Tail(s), c)

\* every text field of a step
StepText(st) ==
  IF st.type = "tool_call"
  THEN st.actionName \o st.actionInput \o st.observation
  ELSE st.content

RECURSIVE StepsText(_)
StepsText(steps) ==
  IF steps = <<>> THEN <<>>
  ELSE StepText(Head(steps)) \o StepsText(Tail(steps))

\* the payload characters a parse result shows, in steps or in the response
Kept(r) == CountChar(StepsText(r.steps), "a") + CountChar(r.response, "a")

RECURSIVE LineStartOf(_, _, _)
\* the first index >= i at which mark stands at the start of a line, or -1
LineStartOf(s, mark, i) ==
  IF i > Len(s) THEN -1
  ELSE IF ((i = 0) \/ (s[i] = "\n")) /\ StartsWithAt(s, mark, i) THEN i
  ELSE LineStartOf(s, mark, i + 1)

ReactLineMarks == ReactMarks \cup {ObservMark}

(***************************************************************************)
(* C1.  A buffer that holds no step marker of the ReAct grammar parses to  *)
(* an empty step list and to a response equal to the whole cleaned text    *)
(* (think blocks removed, trimmed), in the segment variant as in the flat  *)
(* variant.  Violated by the segment variant.                              *)
(***************************************************************************)
C1_PlainTextIsResponse ==
  (grammar = "react" /\ \A m \in ReactLineMarks : ~Includes(buffer, m)) =>
    /\ parsedContentFlat(buffer).steps = <<>>
    /\ parsedContentFlat(buffer).response = cleanContent(buffer)
    /\ parsedContentSegment(buffer).steps = <<>>
    /\ parsedContentSegment(buffer).response = cleanContent(buffer)

(***************************************************************************)
(* C2.  No data loss in the Planning/Step variant: every payload character *)
(* of a buffer without think tags is shown in some step's content or in    *)
(* the response.  Violated: text before the first marker is dropped.       *)
(***************************************************************************)
C2_NoDataLoss ==
  (grammar = "cot" /\ NoThinkTag(buffer)) =>
    Kept(parsedContentCot(buffer)) >= CountChar(buffer, "a")

(***************************************************************************)
(* C3.  Incremental stability of the tag variant: for every proper prefix  *)
(* P of the buffer that ends right after a closing think or tool_call tag, *)
(* the steps parsed from P are a prefix of the steps parsed from the       *)
(* buffer.  Violated when a span closes around an already closed one.      *)
(***************************************************************************)
C3_ClosedStepsStable ==
  grammar = "tag" =>
    \A k \in 1..(Len(buffer) - 1) :
      LET P == SubSeq(buffer, 1, k)
      IN  (EndsWith(P, ThinkClose) \/ EndsWith(P, ToolClose)) =>
            IsPrefix(parsedContentTag(P).steps, parsedContentTag(buffer).steps)

(***************************************************************************)
(* C4.  When a line of the buffer starts with Final Answer: and no think   *)
(* tag stands before it, the step list of the segment variant is the one   *)
(* of the buffer cut right after that marker: nothing after the terminal   *)
(* marker becomes a step.  Violated by a think block after the marker.     *)
(***************************************************************************)
C4_NoStepAfterTerminal ==
  LET k == LineStartOf(buffer, FinalAnswerMark, 0)
  IN  (grammar = "react" /\ k # -1 /\ NoThinkTag(Substring(buffer, 0, k))) =>
        parsedContentSegment(buffer).steps
          = parsedContentSegment(Substring(buffer, 0, k + 13)).steps

\* the state of the Planning/Step line loop before 1-based line h
CotStateBefore(lines, h) ==
  CotLoop([steps |-> <<>>, currentType |-> "null", currentContent |-> <<>>,
           summary |-> <<>>, remainingContent |-> <<>>,
           inThinkBlock |-> FALSE],
          SubSeq(lines, 1, h - 1), 1)

\* line h is a heading or table row met while a step is open
IsCarveOutLine(lines, h) ==
  /\ IsHeadingLine(lines[h]) \/ IsTableLine(lines[h])
  /\ CotStateBefore(lines, h).currentType # "null"

(***************************************************************************)
(* C5.  In the Planning/Step variant, at the first heading or table line   *)
(* met while a step is open, that step is flushed and this line with all   *)
(* remaining lines is the response; no later line adds a step.  Violated   *)
(* by a Planning: or Step n: line after the heading.                       *)
(***************************************************************************)
C5_CarveOutIsFinal ==
  LET lines == SplitLines(buffer)
  IN  (grammar = "cot" /\ NoThinkTag(buffer)
       /\ IsCotFormat(cleanContent(buffer))) =>
        \A h \in 1..Len(lines) :
          (/\ IsCarveOutLine(lines, h)
           /\ \A g \in 1..(h - 1) : ~IsCarveOutLine(lines, g)) =>
            /\ parsedContentCot(buffer).steps
                 = CotFlush(CotStateBefore(lines, h)).steps
            /\ parsedContentCot(buffer).response
                 = cleanContent(JoinLines(SubSeq(lines, h, Len(lines))))

\* the calls whose invoke or stream has not settled yet
Outstanding(cs) == {c \in 1..Len(cs) : cs[c].phase # "settled"}

\* C6: once an aborted stream has been handled, the page shows no loading
\* state, holds no streaming id, and the message is no longer presented as
\* streaming by the step parser.
C6_AbortFinalizes ==
  \A c \in 1..Len(calls) :
    (calls[c].outcome = "aborted" /\ Find(messages, calls[c].aiMessageId) # 0) =>
      /\ ~isLoading
      /\ streamingMessageId = 0
      /\ ~parsedContentSegment(ContentOf(messages, calls[c].aiMessageId)).isStreaming

\* C7: once the terminal event of a stream (Done, Error, or the rejection
\* of the chat call) has been handled and no throttled render is pending,
\* the HTML displayed for the message is the render of its final content,
\* never an earlier throttled snapshot.
C7_FinalRenderMatches ==
  \A c \in 1..Len(calls) :
    LET i == Find(messages, calls[c].aiMessageId)
    IN  (calls[c].ended /\ renderTimer = 0 /\ i # 0) =>
          displayedHtml(messages[i]) = renderMarkdown(messages[i].content)

\* C8: at most one request is outstanding at any time, every token delivered
\* for a request is in the message of that request, and the completion of a
\* request leaves the loading flag and the streaming id of a later request
\* alone.
C8_OneStreamAtATime ==
  [][/\ Cardinality(Outstanding(calls')) <= 1
     /\ \A c \in 1..Len(calls') :
          calls'[c].outcome # "rejected" =>
            ContentOf(messages', calls'[c].aiMessageId) = calls'[c].delivered
     /\ \A c \in 1..Len(calls) :
          (calls[c].phase # "settled" /\ calls'[c].phase = "settled") =>
            \A d \in (c + 1)..Len(calls) :
              calls[d].phase = "running" =>
                /\ isLoading' = isLoading
                /\ streamingMessageId' = streamingMessageId]_vars

\* C9: once the terminal event of a stream has been handled, the content of
\* its message never changes again.
C9_ContentFrozen ==
  [][\A c \in 1..Len(calls) :
       (calls[c].ended /\ Find(messages', calls[c].aiMessageId) # 0) =>
         ContentOf(messages', calls[c].aiMessageId)
           = ContentOf(messages, calls[c].aiMessageId)]_vars

\* C10: when a request fails, the text accumulated so far stays in the
\* message, an error marker is appended after it, and the loading state is
\* cleared.
C10_ErrorKeepsText ==
  [][\A c \in 1..Len(calls) :
       (/\ calls[c].outcome # "rejected"
        /\ calls'[c].outcome = "rejected"
        /\ Find(messages, calls[c].aiMessageId) # 0) =>
         LET old == ContentOf(messages, calls[c].aiMessageId)
             new == ContentOf(messages', calls[c].aiMessageId)
         IN  /\ IsPrefix(old, new)
             /\ new # old
             /\ ~isLoading']_vars

\* C11: the step that handles an aborted stream leaves the message different
\* from what the normal end of the same stream would leave: it carries a
\* marker of the abort.
C11_AbortedIsMarked ==
  [][\A c \in 1..Len(calls) :
       LET i == Find(messages, calls[c].aiMessageId)
       IN  (/\ calls[c].outcome # "aborted"
            /\ calls'[c].outcome = "aborted"
            /\ i # 0) =>
             messages'[i] # [messages[i] EXCEPT !.content = onDone(@)]]_vars

\* C12: while a request streams, the content of its message is the
\* concatenation, in delivery order, of the payloads of the token and
\* tool-result events delivered for it since the send.
C12_ContentIsDelivered ==
  \A c \in 1..Len(calls) :
    (calls[c].phase = "running" /\ Find(messages, calls[c].aiMessageId) # 0) =>
      ContentOf(messages, calls[c].aiMessageId) = calls[c].delivered

\* C13: at most one render timer is pending; a scheduleRender call made
\* while one is pending starts no new one; and the timer that fires renders
\* the content its message has when it fires.
C13_RenderThrottle ==
  [][/\ Len(timeouts') <= 1
     /\ timeouts # <<>> => Len(timeouts') <= Len(timeouts)
     /\ Len(timeouts') < Len(timeouts) =>
          LET i == Find(messages, Head(timeouts))
          IN  (i # 0 /\ messages[i].content # <<>>) =>
                messages'[i].renderedContent = markedParse(messages[i].content)]_vars

\* a timer scheduled by a token has fired after the Error event appended its
\* marker: only the timer renders after an Error, and it rendered the marker
C13_Witness ==
  \E c \in 1..Len(calls) :
    LET i == Find(messages, calls[c].aiMessageId)
    IN  /\ calls[c].phase = "error"
        /\ calls[c].delivered # <<>>
        /\ timeouts = <<>>
        /\ i # 0
        /\ messages[i].renderedContent = markedParse(messages[i].content)

\* what follows the marker of a Planning:, Step n: or Summary: line
MarkerRemainder(line) ==
  IF StartsWith(line, PlanningMark) THEN SubstringFrom(line, 9)
  ELSE IF StartsWith(line, SummaryMark) THEN SubstringFrom(line, 8)
  ELSE SubstringFrom(line, IndexOf(line, <<":">>) + 1)

RECURSIVE OneStepPerMarker(_)
\* one step per Planning: / Step n: line, in order, with the trimmed remainder
OneStepPerMarker(lines) ==
  IF lines = <<>> THEN <<>>
  ELSE <<[type |-> IF StartsWith(Head(lines), PlanningMark)
                   THEN "planning" ELSE "step",
          content |-> Trim(MarkerRemainder(Head(lines)))]>>
       \o OneStepPerMarker(Tail(lines))

PlanParsedAsWritten ==
  LET lines == SplitLines(buffer)
      r == parsedContentCot(buffer)
  IN  /\ r.steps = OneStepPerMarker(SubSeq(lines, 1, Len(lines) - 1))
      /\ r.response = Trim(MarkerRemainder(lines[Len(lines)]))
      /\ r.isStreaming = FALSE

\* no content of the message is the bare word Result
NoBareResultContent ==
  \A i \in 1..Len(SplitLines(buffer)) :
    Trim(MarkerRemainder(SplitLines(buffer)[i])) # ResultWord

\* C14 as stated: every well-formed Planning / Step n / Summary buffer with
\* non-blank contents parses to one step per marker in order with the
\* trimmed remainder as content, the trimmed Summary text as response, and
\* isStreaming = false.
C14_WellFormedPlan ==
  grammar = "planned" => PlanParsedAsWritten

\* C14 amended: the same, for buffers none of whose contents is the bare
\* word Result.
C14_WellFormedPlanNoBareResult ==
  (grammar = "planned" /\ NoBareResultContent) => PlanParsedAsWritten

\* a closed message of two marker lines and a summary, no content "Result",
\* parsed into two steps
C14_Witness ==
  /\ grammar = "planned"
  /\ NoBareResultContent
  /\ Len(parsedContentCot(buffer).steps) = 2
  /\ parsedContentCot(buffer).steps[1].type = "planning"
  /\ parsedContentCot(buffer).steps[2].type = "step"
  /\ parsedContentCot(buffer).response = <<"a">>

\* the buffer is "<think>" followed by non-blank text without a think tag
OpenThinkBuffer ==
  /\ StartsWith(buffer, ThinkOpen)
  /\ NoThinkTag(SubstringFrom(buffer, 7))
  /\ Trim(SubstringFrom(buffer, 7)) # <<>>

OpenThinkSegment ==
  /\ parsedContentSegment(buffer).steps
       = <<[type |-> "thinking", content |-> Trim(SubstringFrom(buffer, 7))]>>
  /\ parsedContentSegment(buffer).response = <<>>

OpenThinkTag ==
  /\ parsedContentTag(buffer).steps = <<>>
  /\ streamingStep(buffer)
       = [type |-> "thought", content |-> Trim(SubstringFrom(buffer, 7))]
  /\ parsedContentTag(buffer).response = <<>>

OpenThinkCot ==
  /\ parsedContentCot(buffer).steps = <<>>
  /\ thinkingContent(buffer) = Trim(SubstringFrom(buffer, 7))
  /\ parsedContentCot(buffer).response = <<>>

\* C15: a buffer "<think>" + t, t non-blank and without think tag, is shown
\* as exactly one thinking step with content t trimmed and an empty
\* response, in the segment, tag and Planning/Step variants.
C15_OpenThinkIsOneStep ==
  (grammar = "tag" /\ OpenThinkBuffer) =>
    OpenThinkSegment /\ OpenThinkTag /\ OpenThinkCot

\* the position of the last opening tag when no closing tag follows it,
\* else -1
UnclosedAt(open, close) ==
  LET k == LastIndexOf(buffer, open)
  IN  IF k # -1 /\ IndexOfFrom(buffer, close, k) = -1 THEN k ELSE -1

\* the response holds nothing from position k on, and the text after the
\* opening tag at k is the in-progress step
InProgressShown(k, type, open) ==
  /\ Len(parsedContentTag(buffer).response) <= k
  /\ streamingStep(buffer)
       = [type |-> type,
          content |-> Trim(SubstringFrom(buffer, k + Len(open)))]

\* C16: in the tag variant, when the last opening think or tool_call tag of
\* the buffer has no closing tag after it, the response holds no text from
\* that tag on and the text after the tag is the one in-progress step, also
\* with stray closing tags or a tag opened twice in the buffer.
C16_UnclosedTailIsInProgress ==
  LET kThink == UnclosedAt(ThinkOpen, ThinkClose)
      kTool == UnclosedAt(ToolOpen, ToolClose)
  IN  (grammar = "tag" /\ (kThink # -1 \/ kTool # -1)) =>
        \/ kThink # -1 /\ InProgressShown(kThink, "thought", ThinkOpen)
        \/ kTool # -1 /\ InProgressShown(kTool, "action", ToolOpen)

\* the last line of the buffer is a continuation line with a non-blank text
\* and the line before it is the marker line it continues, with a
\* non-blank text too
ContinuesLastStep(mark, input) ==
  LET lines == SplitLines(buffer)
      n == Len(lines)
  IN  /\ NoThinkTag(buffer)
      /\ n >= 2
      /\ StartsWith(lines[n - 1], mark)
      /\ Trim(SubstringFrom(lines[n - 1], Len(mark))) # <<>>
      /\ StartsWith(lines[n], input)
      /\ Trim(SubstringFrom(lines[n], Len(input))) # <<>>

\* the buffer without its last line
BeforeLastLine ==
  JoinLines(SubSeq(SplitLines(buffer), 1, Len(SplitLines(buffer)) - 1))

\* the text of the last line after the continuation marker
ContinuationText(input) ==
  Trim(SubstringFrom(SplitLines(buffer)[Len(SplitLines(buffer))], Len(input)))

\* the continuation line added no step and its text is in the last step
JoinedLastStep(before, after, input) ==
  /\ Len(after) = Len(before)
  /\ Len(after) >= 1
  /\ Includes(StepText(after[Len(after)]), ContinuationText(input))

\* C17: an Action Input: line that follows an Action: line starts no new
\* step: its text is added to the Action step and is not dropped, in the
\* flat variant as in the segment variant.
C17_ContinuationJoinsStep ==
  (grammar = "react" /\ ContinuesLastStep(ActionMark, ActionInputMark)) =>
    /\ JoinedLastStep(parsedContentSegment(BeforeLastLine).steps,
                      parsedContentSegment(buffer).steps, ActionInputMark)
    /\ JoinedLastStep(parsedContentFlat(BeforeLastLine).steps,
                      parsedContentFlat(buffer).steps, ActionInputMark)

\* every step of the list shows some non-blank text
AllStepsNonBlank(steps) ==
  \A i \in 1..Len(steps) : Trim(StepText(steps[i])) # <<>>

\* C18: every step of the parsed step list has non-blank content: a marker
\* whose accumulated text is blank after trimming gives no step, tool calls
\* included, in the segment variant as in the flat variant.
C18_NoBlankStep ==
  grammar = "react" =>
    /\ AllStepsNonBlank(parsedContentSegment(buffer).steps)
    /\ AllStepsNonBlank(parsedContentFlat(buffer).steps)

\* some line of the text is the bare word Result
HasBareResultLine(text) ==
  \E i \in 1..Len(SplitLines(text)) : SplitLines(text)[i] = ResultWord

\* no text field of the step has a bare Result line
StepHasNoBareResult(st) ==
  IF st.type = "tool_call"
  THEN /\ ~HasBareResultLine(st.actionName)
       /\ ~HasBareResultLine(st.actionInput)
       /\ ~HasBareResultLine(st.observation)
  ELSE ~HasBareResultLine(st.content)

NoBareResultShown(r) ==
  /\ \A i \in 1..Len(r.steps) : StepHasNoBareResult(r.steps[i])
  /\ ~HasBareResultLine(r.response)

\* C19: no line equal to the bare word Result appears in an emitted step
\* content or in the response, in the segment variant as in the flat
\* variant.
C19_BareResultRemoved ==
  grammar = "react" =>
    /\ NoBareResultShown(parsedContentSegment(buffer))
    /\ NoBareResultShown(parsedContentFlat(buffer))

\* some line of the buffer starts with one of the markers
LineStartsWithAny(marks) ==
  \E m \in marks : LineStartOf(buffer, m, 0) # -1

ReactStepMarks == {ThoughtMark, ActionMark, ActionInputMark, ObservMark}

CotStepMarks ==
  {PlanningMark, StepWord \o <<" ", "1", ":">>, ToolMark, ToolInputMark,
   ResultMark}

\* C20: isStreaming is true exactly when a step marker of the grammar has
\* been seen and neither the terminal marker nor any response text is
\* present (flat variant, buffers without think tags).
C20_StreamingIffOpenSteps ==
  (grammar = "react" /\ NoThinkTag(buffer)) =>
    (parsedContentFlat(buffer).isStreaming
       <=> /\ LineStartsWithAny(ReactStepMarks)
           /\ ~LineStartsWithAny({FinalAnswerMark})
           /\ parsedContentFlat(buffer).response = <<>>)

\* the step st can have been opened at position p of the buffer: its opening
\* tag or marker stands there, and the text of a think block follows its tag
OpenedAt(st, p) ==
  CASE st.type = "thinking" ->
         /\ StartsWithAt(buffer, ThinkOpen, p)
         /\ IsPrefix(st.content, TrimStart(SubstringFrom(buffer, p + 7)))
    [] st.type = "thought" -> StartsWithAt(buffer, ThoughtMark, p)
    [] st.type = "tool_call" -> StartsWithAt(buffer, ActionMark, p)

RECURSIVE FirstOpenedAt(_, _)
\* the first position >= p at which st can have been opened, or -1
FirstOpenedAt(st, p) ==
  IF p > Len(buffer) THEN -1
  ELSE IF OpenedAt(st, p) THEN p
  ELSE FirstOpenedAt(st, p + 1)

RECURSIVE InBufferOrder(_, _)
\* the steps can be laid on the buffer from position p on, each opened
\* after the one before it
InBufferOrder(steps, p) ==
  \/ steps = <<>>
  \/ LET k == FirstOpenedAt(Head(steps), p)
     IN  k # -1 /\ InBufferOrder(Tail(steps), k + 1)

\* every step of the tag variant records the position of its opening tag,
\* and the positions ascend along the list
TagStepsByIndex ==
  LET steps == parsedContentTag(buffer).steps
  IN  /\ \A i \in 1..Len(steps) :
           StartsWithAt(buffer,
                        IF steps[i].type = "thought" THEN ThinkOpen
                        ELSE ToolOpen,
                        steps[i].index)
      /\ \A i, j \in 1..Len(steps) :
           i < j => steps[i].index < steps[j].index

\* C21: the parsed step list is ordered by position in the buffer: of two
\* steps, the one whose opening tag or marker stands earlier in the buffer
\* comes first, in the tag variant (think and tool_call spans interleaved or
\* nested) and in the segment variant (think blocks between ReAct lines).
C21_StepsInBufferOrder ==
  /\ TagStepsByIndex
  /\ InBufferOrder(parsedContentSegment(buffer).steps, 0)

\* a tool_call span that encloses a think block: the thought is pushed
\* first and the sort moves the action in front of it
C21_Witness ==
  /\ grammar = "steps"
  /\ Len(parsedContentTag(buffer).steps) = 2
  /\ parsedContentTag(buffer).steps[1].type = "action"
  /\ parsedContentTag(buffer).steps[1].index = 0
  /\ parsedContentTag(buffer).steps[2].type = "thought"
  /\ parsedContentTag(buffer).steps[2].index = 11

\* r is what a parse returns: a step list, a response string and a flag
IsParseResult(r) ==
  /\ {"steps", "response", "isStreaming"} \subseteq DOMAIN r
  /\ DOMAIN r.steps = 1..Len(r.steps)
  /\ DOMAIN r.response = 1..Len(r.response)
  /\ r.isStreaming \in BOOLEAN

\* the buffer holds no tag, no marker of the ReAct or the Planning/Step
\* grammar and no leftover Result word
MatchesNoGrammar ==
  \A m \in {ThinkOpen, ThinkClose, ToolOpen, ToolClose, ResultWord,
            PlanningMark, StepWord, ToolMark, SummaryMark}
           \cup ReactLineMarks :
    ~Includes(buffer, m)

\* r has no step and the whole trimmed buffer as its response
IsPlainResponse(r) == r.steps = <<>> /\ r.response = Trim(buffer)

\* C22: every buffer parses to a result (the empty buffer, opening tags
\* only, closing tags without opener, a tag opened twice, a marker line
\* without text), and a buffer that matches no grammar comes back as plain
\* response content, in the segment, tag and Planning/Step variants.
C22_ParseIsTotal ==
  /\ IsParseResult(parsedContentSegment(buffer))
  /\ IsParseResult(parsedContentTag(buffer))
  /\ IsParseResult(parsedContentCot(buffer))
  /\ streamingStep(buffer).type \in {"null", "thought", "action"}
  /\ MatchesNoGrammar =>
       /\ IsPlainResponse(parsedContentSegment(buffer))
       /\ IsPlainResponse(parsedContentTag(buffer))
       /\ IsPlainResponse(parsedContentCot(buffer))

C24_TurnListIsHistoryPlusNew ==
  [][(/\ Len(calls') = Len(calls) + 1
      /\ "apiMessages" \in DOMAIN calls'[Len(calls')])
       => calls'[Len(calls')].apiMessages
            = Append(HistoryOf(messages),
                     [role |-> "user",
                      content |-> messages'[Len(messages) + 1].content])]_vars

\* content is one think block holding exactly the reasoning, with the
\* answer around it, in order
OneThinkBlock(content, reasoning, answer) ==
  \E k \in 0..Len(answer) :
    content = SubSeq(answer, 1, k) \o ThinkOpen \o reasoning \o ThinkClose
              \o SubSeq(answer, k + 1, Len(answer))

\* C25: when a stream that delivered reasoning tokens and answer tokens has
\* completed, the message content is one think block that holds exactly the
\* reasoning tokens in order, and all answer tokens lie outside the block in
\* order: no answer token inside the block, no earlier token overwritten.
C25_ReasoningInOneBlock ==
  \A c \in 1..Len(calls) :
    (/\ "reasoning" \in DOMAIN calls[c]
     /\ calls[c].outcome = "done"
     /\ calls[c].reasoning # <<>>
     /\ calls[c].delivered # <<>>
     /\ Find(messages, calls[c].aiMessageId) # 0)
      => OneThinkBlock(ContentOf(messages, calls[c].aiMessageId),
                       calls[c].reasoning, calls[c].delivered)

\* the step settles the invoke call c: its promise resolves or rejects
Settles(c) == calls[c].phase # "settled" /\ calls'[c].phase = "settled"

\* C26: after a send, once the chat invoke call has settled, resolved or
\* rejected, the typing flag (isTyping of ChatInput.vue) and the loading
\* flag (isLoading of Index.vue) are false, so that the input is enabled
\* again.
C26_FlagClearedOnSettle ==
  [][\A c \in 1..Len(calls) :
       (Len(calls') = Len(calls) /\ Settles(c)) =>
         ~isTyping' /\ ~isLoading']_vars

\* C27: after any sequence of create, select and delete operations on the
\* conversation list, currentConversationId is null or the id of a
\* conversation still in the list.
C27_CurrentIsListed ==
  \/ currentConversationId = 0
  \/ \E i \in 1..Len(conversations) :
       conversations[i].id = currentConversationId

\* C28: after any sequence of sends and clears in the channel-based chat
\* page, the message list never holds more than MAX_MESSAGES entries.
C28_ListIsCapped == Len(messages) <= MAX_MESSAGES

\* a send on a full list: the two oldest messages are gone and the list is
\* full again
C28_Witness ==
  /\ Len(calls) = 1
  /\ Len(messages) = MAX_MESSAGES
  /\ messages[1].id = -3
  /\ messages[MAX_MESSAGES].id = calls[1].aiMessageId

\* the initDb calls whose Database.load was invoked and has not failed
LoadsOf(cs) ==
  {c \in 1..Len(cs) : cs[c].loaded /\ cs[c].phase # "failed"}

\* C29: initDb is a singleton initializer: under any interleaving of
\* concurrent initDb calls, Database.load is invoked at most once (a load
\* that failed aside) and every caller receives the same instance.
C29_InitDbIsSingleton ==
  /\ Cardinality(LoadsOf(dbCalls)) <= 1
  /\ \A c, e \in 1..Len(dbCalls) :
       (dbCalls[c].phase = "returned" /\ dbCalls[e].phase = "returned") =>
         dbCalls[c].result = dbCalls[e].result

\* the rows of the agent list that are marked default
DefaultRows == {i \in 1..Len(agents) : agentObjs[agents[i]].isDefault}

\* C30: in the agent-management page, after any sequence of menu actions
\* (set as default, delete, stop download, start download) and of download
\* timer ticks, exactly one agent of the list is marked default.
C30_OneDefaultAgent == Cardinality(DefaultRows) = 1

\* the default has moved to a downloaded agent and the first default has
\* been deleted
C30_Witness ==
  /\ \E i \in 1..Len(agents) :
       /\ agentObjs[agents[i]].isDefault
       /\ agentObjs[agents[i]].id \in AvailableIds
       /\ agentObjs[agents[i]].status = "ready"
  /\ ~InList(agents, agentObjs, 1)

====
